---- MODULE Spec2Model ----
(***************************************************************************)
(* A model of three parts of ilastik:                                      *)
(*   - PixelClassificationSerializer.slicingToString / stringToSlicing     *)
(*     (pixelClassificationSerializer.py),                                 *)
(*   - the dirty propagation and setupOutputs of OpSplitBodyCarving and    *)
(*     OpHighlightLabel (opSplitBodyCarving.py),                           *)
(*   - the dirty flags, save and load of PixelClassificationSerializer.    *)
(* Each part has its own specification; the variables of the other parts   *)
(* stay at their initial values.                                           *)
(***************************************************************************)
EXTENDS Integers, Sequences, FiniteSets, TLC

VARIABLES
    \* ---- slicing <-> string conversion
    slicing,        \* the slicing given to slicingToString
    strSlicing,     \* the string it returned (a sequence of characters)
    parsed,         \* what stringToSlicing returned for that string
    pcSlicing       \* "input", "formatted" or "parsed"

slicingVars == <<slicing, strSlicing, parsed, pcSlicing>>

VARIABLES
    \* ---- OpSplitBodyCarving and its OpHighlightLabel
    rawMeta,        \* metadata of the base operator's input, None before it is set
    ravelerMeta,    \* RavelerLabels.meta (also OpHighlightLabel.Input.meta)
    segMeta,        \* Segmentation.meta
    maskedMeta,     \* MaskedSegmentation.meta
    hlOutMeta,      \* OpHighlightLabel.Output.meta
    segHandlers,    \* the handleDirtySegmentation closures subscribed to Segmentation
    maskedSubs,     \* the dirty callbacks subscribed to MaskedSegmentation
    received,       \* per subscriber: the regions its callback got in the last event
    hlReceived,     \* the regions HighlightedRavelerObject was marked dirty over in it
    lastEvent,      \* the last upstream dirty event: the slot and the region
    carvOp          \* the last operation on the operator

carvVars == <<rawMeta, ravelerMeta, segMeta, maskedMeta, hlOutMeta, segHandlers,
              maskedSubs, received, hlReceived, lastEvent, carvOp>>

VARIABLES
    \* ---- PixelClassificationSerializer, its operator and its project file
    dirtyFlags,     \* self._dirtyFlags: section -> BOOLEAN
    dirtySubs,      \* the handleDirty callbacks subscribed: slot, index, section
    labelInputs,    \* per image of the operator, its label blocks
    cache,          \* classifier_cache: the value, whether it is dirty or forced
    projectFile,    \* the serializer's group of the project file
    serOp,          \* the last operation
    flagsBefore,    \* the flags when the last save or load began
    notified,       \* the slots that were marked dirty during the last operation
    fired,          \* the sections whose handleDirty ran during it
    acted,          \* the sections the last save wrote to the file
    retrained,      \* whether the classifier was trained during it
    events          \* the notifications of the last operation, in their order

serVars == <<dirtyFlags, dirtySubs, labelInputs, cache, projectFile, serOp,
             flagsBefore, notified, fired, acted, retrained, events>>

VARIABLES
    \* ---- execute and propagateDirty of OpSplitBodyCarving, called by the engine
    exRavelerLabels,  \* the data of RavelerLabels: position -> label
    exSegmentation,   \* the data OpCarving produces for Segmentation
    exCurrentLabel,   \* CurrentRavelerLabel.value
    exCall,           \* the last call: the method, the slot and the region
    exOutcome         \* what it returned, read, and marked dirty

execVars == <<exRavelerLabels, exSegmentation, exCurrentLabel, exCall, exOutcome>>

VARIABLES
    \* ---- MulticutGuiMixin: the layer of the superpixel edge probabilities
    superpixel_edge_layer,  \* self.superpixel_edge_layer: 0 for None, or a layer
    layersMade,             \* how many such layers setupLayers has created
    pen_table,              \* per layer, the pen of the edge: an index of the
                            \* probability_pen_table, or DefaultPen
    edgeProbs,              \* EdgeProbabilitiesDict.value: the probability of the edge
    spReady,                \* Superpixels.ready()
    epReady,                \* EdgeProbabilitiesDict.ready()
    requests,               \* the Requests submitted, in order: where each is
    routedQueue,            \* the calls routed to the main thread, in order
    mainPc,                 \* what the main thread is in the middle of
    lastMutation,           \* the last update of a pen_table: the thread, the layer
    edgeOp                  \* the last step

edgeVars == <<superpixel_edge_layer, layersMade, pen_table, edgeProbs, spReady,
              epReady, requests, routedQueue, mainPc, lastMutation, edgeOp>>

VARIABLES
    \* ---- the worker pool running execute of OpSplitBodyCarving
    poolWorkers,    \* the number of workers of the pool
    poolRequests    \* the Requests, in the order they were made

poolVars == <<poolWorkers, poolRequests>>

VARIABLES
    \* ---- MulticutGuiMixin: the Beta and solver controls and the operator
    opBeta,             \* op.Beta.value, in hundredths
    opSolverName,       \* op.SolverName.value
    beta_box,           \* the value the spin box shows, in hundredths
    solver_name_combo,  \* the current index of the combo box, from 1
    currently_updating, \* self._currently_updating
    cfgReady,           \* whether Beta and SolverName can be read
    cfgStack,           \* per thread, the handler calls in progress, innermost last
    cfgQueued,          \* the signals queued for the GUI thread
    cfgRaised,          \* the exceptions that left a handler, as thread and error
    cfgEvents           \* how many edits and operator changes there were

cfgVars == <<opBeta, opSolverName, beta_box, solver_name_combo, currently_updating,
             cfgReady, cfgStack, cfgQueued, cfgRaised, cfgEvents>>

VARIABLES
    \* ---- MulticutGuiMixin: the Update Multicut button and its threads
    freezeCache,        \* op.FreezeCache.value
    edgesVisible,       \* the visible flag of the layer "Multicut Edges"
    viewsVisible,       \* how many image views of the editor are visible
    updThreads,         \* the update threads started, each with its position
    \* ---- MulticutGuiMixin: the dirty subscriptions and their clean-up
    subscribers,        \* per slot, the callbacks subscribed, in order
    subscribeOnce,      \* whether a slot keeps one entry per callback
    cleanup_fns,        \* self.__cleanup_fns, as slot and callback to unregister
    drawers,            \* how many times createDrawerControls was called
    stopped,            \* whether stopAndCleanUp has run
    invoked             \* the callbacks the last dirty event invoked

updVars == <<freezeCache, edgesVisible, viewsVisible, updThreads>>

subVars == <<subscribers, subscribeOnce, cleanup_fns, drawers, stopped, invoked>>

vars == <<slicingVars, carvVars, serVars, execVars, edgeVars, poolVars, cfgVars,
          updVars, subVars>>

\* what the operations of one part leave alone
notSlicingVars == <<carvVars, serVars, execVars, edgeVars, poolVars, cfgVars,
    updVars, subVars>>
notCarvVars == <<slicingVars, serVars, execVars, edgeVars, poolVars, cfgVars,
    updVars, subVars>>
notSerVars == <<slicingVars, carvVars, execVars, edgeVars, poolVars, cfgVars,
    updVars, subVars>>
notExecVars == <<slicingVars, carvVars, serVars, edgeVars, poolVars, cfgVars,
    updVars, subVars>>
notEdgeVars == <<slicingVars, carvVars, serVars, execVars, poolVars, cfgVars,
    updVars, subVars>>
notPoolVars == <<slicingVars, carvVars, serVars, execVars, edgeVars, cfgVars,
    updVars, subVars>>
notCfgVars == <<slicingVars, carvVars, serVars, execVars, edgeVars, poolVars,
    updVars, subVars>>
notUpdVars == <<slicingVars, carvVars, serVars, execVars, edgeVars, poolVars,
    cfgVars, subVars>>
notSubVars == <<slicingVars, carvVars, serVars, execVars, edgeVars, poolVars,
    cfgVars, updVars>>

(***************************************************************************)
(* Bounds.                                                                 *)
(***************************************************************************)
\* the largest number of axes of a slicing
MaxAxes == 3
\* the largest start or stop of a slice (three decimal digits)
MaxCoord == 123
\* the largest extent of an axis of a volume
MaxShape == 2
\* how many times setupOutputs of OpSplitBodyCarving is run
MaxSetups == 2
\* how many dirty callbacks are subscribed to MaskedSegmentation
MaxSubs == 2
\* the largest number of images of the pixel classification operator
MaxLanes == 2
\* how many Requests the probability edge handler submits
MaxRequests == 2
\* how many superpixel edge layers setupLayers creates
MaxLayers == 1
\* the largest number of workers of the pool
MaxWorkers == 2
\* how many requests for MaskedSegmentation are made from outside the pool
MaxOuter == 2
\* how many edits of the controls and changes of the operator are made
MaxEvents == 2
\* how many times the Update Multicut button is clicked
MaxClicks == 2
\* how many image views the editor has
MaxViews == 2
\* how many times createDrawerControls is called
MaxDrawers == 2
\* how many callbacks of other objects subscribe to a slot
MaxOthers == 1

(***************************************************************************)
(* Python strings are sequences of one-character strings.                  *)
(***************************************************************************)
Digits == <<"0", "1", "2", "3", "4", "5", "6", "7", "8", "9">>

IsDigit(c) == \E i \in 1..10 : Digits[i] = c

DigitValue(c) == (CHOOSE i \in 1..10 : Digits[i] = c) - 1

\* str(n) for an int n >= 0: its decimal digits, no sign, no leading zero
RECURSIVE PyStr(_)
PyStr(n) == IF n < 10 THEN <<Digits[n + 1]>>
            ELSE PyStr(n \div 10) \o <<Digits[(n % 10) + 1]>>

\* the value of a non-empty string of digits
RECURSIVE DigitsValue(_)
DigitsValue(s) == IF Len(s) = 0 THEN 0
                  ELSE 10 * DigitsValue(SubSeq(s, 1, Len(s) - 1)) + DigitValue(s[Len(s)])

\* int(s): a ValueError for the empty string and for anything that is not a
\* number; the strings here hold no sign, blank or underscore.
PyInt(s) == IF Len(s) > 0 /\ \A i \in 1..Len(s) : IsDigit(s[i])
            THEN [ok |-> TRUE, value |-> DigitsValue(s)]
            ELSE [ok |-> FALSE, value |-> 0]

\* s.split(sep) for a one-character separator: the pieces between the
\* separators; the empty string gives one empty piece.
RECURSIVE PySplit(_, _)
PySplit(s, sep) ==
    IF \E i \in 1..Len(s) : s[i] = sep
    THEN LET i == CHOOSE k \in 1..Len(s) : s[k] = sep /\ \A j \in 1..(k - 1) : s[j] # sep
         IN  <<SubSeq(s, 1, i - 1)>> \o PySplit(SubSeq(s, i + 1, Len(s)), sep)
    ELSE <<s>>

\* s[:-1]
DropLast(s) == SubSeq(s, 1, Len(s) - 1)

\* s[1:-1]
DropBrackets(s) == SubSeq(s, 2, Len(s) - 1)

(***************************************************************************)
(* slicingToString and stringToSlicing, as the code computes them.         *)
(***************************************************************************)
MkSlice(a, b) == [start |-> a, stop |-> b]

\* the loop of slicingToString: "start:stop," appended for each slice
RECURSIVE AppendSlices(_, _)
AppendSlices(str, sl) ==
    IF sl = <<>> THEN str
    ELSE AppendSlices(str \o PyStr(Head(sl).start) \o <<":">>
                          \o PyStr(Head(sl).stop) \o <<",">>, Tail(sl))

slicingToString(sl) == DropLast(AppendSlices(<<"[">>, sl)) \o <<"]">>

\* one pass of the loop of stringToSlicing: "ValueError" when int() fails,
\* "IndexError" when the piece holds no ':'
ParseSlice(s) ==
    LET ends  == PySplit(s, ":")
        start == PyInt(ends[1])
        stop  == PyInt(ends[2])
    IN  IF ~start.ok THEN [error |-> "ValueError", slice |-> MkSlice(0, 0)]
        ELSE IF Len(ends) < 2 THEN [error |-> "IndexError", slice |-> MkSlice(0, 0)]
        ELSE IF ~stop.ok THEN [error |-> "ValueError", slice |-> MkSlice(0, 0)]
        ELSE [error |-> "", slice |-> MkSlice(start.value, stop.value)]

RECURSIVE ParseSlices(_, _)
ParseSlices(acc, sliceStrings) ==
    IF sliceStrings = <<>> THEN [error |-> "", slicing |-> acc]
    ELSE LET p == ParseSlice(Head(sliceStrings))
         IN  IF p.error # "" THEN [error |-> p.error, slicing |-> <<>>]
             ELSE ParseSlices(Append(acc, p.slice), Tail(sliceStrings))

\* returns [error, slicing]: error is "" when the call returns, and else the
\* exception it raises
stringToSlicing(str) == ParseSlices(<<>>, PySplit(DropBrackets(str), ","))

(***************************************************************************)
(* The conversion as a state machine: a slicing is formatted, then the     *)
(* string is parsed.                                                       *)
(***************************************************************************)
Coords == {0, 7, 10, MaxCoord}

Slices == {MkSlice(a, b) : a \in Coords, b \in Coords}

RECURSIVE SeqsUpTo(_, _)
SeqsUpTo(S, n) ==
    IF n = 0 THEN {<<>>}
    ELSE LET shorter == SeqsUpTo(S, n - 1)
         IN  shorter \cup {Append(q, x) : q \in shorter, x \in S}

Slicings == SeqsUpTo(Slices, MaxAxes)

NoParse == [error |-> "", slicing |-> <<>>]

InitSlicing ==
    /\ slicing \in Slicings
    /\ strSlicing = <<>>
    /\ parsed = NoParse
    /\ pcSlicing = "input"

DoSlicingToString ==
    /\ pcSlicing = "input"
    /\ strSlicing' = slicingToString(slicing)
    /\ pcSlicing' = "formatted"
    /\ UNCHANGED <<slicing, parsed>>
    /\ UNCHANGED notSlicingVars

DoStringToSlicing ==
    /\ pcSlicing = "formatted"
    /\ parsed' = stringToSlicing(strSlicing)
    /\ pcSlicing' = "parsed"
    /\ UNCHANGED <<slicing, strSlicing>>
    /\ UNCHANGED notSlicingVars

NextSlicing ==
    \/ DoSlicingToString
    \/ DoStringToSlicing

(***************************************************************************)
(* Regions of interest and metadata.  A volume has two axes, the second   *)
(* of extent 1 (a channel); a region is a start and a stop per axis.       *)
(***************************************************************************)
MkRoi(a, b) == [start |-> a, stop |-> b]

Points == {<<x, y>> : x \in 0..MaxShape, y \in 0..1}

Rois == {r \in [start : Points, stop : Points] :
            \A i \in 1..2 : r.start[i] <= r.stop[i]}

\* the shapes a volume takes
Shapes == {<<1, 1>>, <<MaxShape, 1>>}

RoisWithin(shape) == {r \in Rois : \A i \in 1..2 : r.stop[i] <= shape[i]}

\* metadata is the shape; a slot that was never set up has none
NoMeta == [shape |-> <<>>]

Meta(shape) == [shape |-> shape]

Contains(outer, inner) ==
    \A i \in 1..2 : outer.start[i] <= inner.start[i] /\ inner.stop[i] <= outer.stop[i]

\* the two forms of the argument of Slot.setDirty: (start, stop), or slice(None)
Bounded(start, stop) == [whole |-> FALSE, roi |-> MkRoi(start, stop)]

SliceNone == [whole |-> TRUE, roi |-> MkRoi(<<>>, <<>>)]

\* the region a subscriber of a slot of this shape is told: slice(None) is
\* the entire domain of the slot
EntireDomain(shape) == MkRoi(<<0, 0>>, shape)

NotifiedRegion(arg, shape) == IF arg.whole THEN EntireDomain(shape) ELSE arg.roi

SetDirtyCall(slot, arg) == [slot |-> slot, arg |-> arg]

(***************************************************************************)
(* OpHighlightLabel                                                        *)
(***************************************************************************)
\* Output.meta after OpHighlightLabel.setupOutputs
OpHighlightLabel_setupOutputs(inputMeta) == inputMeta

\* a faulty variant of OpHighlightLabel.propagateDirty, which passes the
\* region of a HighlightLabel event on instead of slice(None)
OpHighlightLabel_propagateDirty_Region(slot, roi) ==
    IF slot = "Input" \/ slot = "HighlightLabel"
    THEN [failed |-> FALSE, calls |-> <<SetDirtyCall("Output", Bounded(roi.start, roi.stop))>>]
    ELSE [failed |-> TRUE, calls |-> <<>>]

\* the setDirty calls OpHighlightLabel.propagateDirty makes; failed when the
\* assertion on an unknown slot fails
OpHighlightLabel_propagateDirty(slot, roi) ==
    IF slot = "Input"
    THEN [failed |-> FALSE, calls |-> <<SetDirtyCall("Output", Bounded(roi.start, roi.stop))>>]
    ELSE IF slot = "HighlightLabel"
    THEN [failed |-> FALSE, calls |-> <<SetDirtyCall("Output", SliceNone)>>]
    ELSE [failed |-> TRUE, calls |-> <<>>]

(***************************************************************************)
(* OpSplitBodyCarving                                                      *)
(***************************************************************************)
\* the input slots of OpSplitBodyCarving a dirty event arrives on: its own
\* two, and one of the slots it inherits from OpCarving
SplitInputSlots == {"RavelerLabels", "CurrentRavelerLabel", "WriteSeeds"}

\* OpCarving.setupOutputs: Segmentation takes the metadata of the input volume
OpCarving_setupOutputs(inputMeta) == inputMeta

\* OpCarving.propagateDirty: a change of an inherited input marks the
\* segmentation dirty over the region that changed
OpCarving_propagateDirty(slot, roi) ==
    <<SetDirtyCall("Segmentation", Bounded(roi.start, roi.stop))>>

\* the number of handleDirtySegmentation closures subscribed to Segmentation
\* once setupOutputs has run: every run defines a new closure and subscribes it
HandlersAfterSetup(handlers) == handlers + 1

\* OpSplitBodyCarving.setupOutputs
OpSplitBodyCarving_setupOutputs(inputMeta) ==
    /\ segMeta' = OpCarving_setupOutputs(inputMeta)
    /\ maskedMeta' = segMeta'
    /\ segHandlers' = HandlersAfterSetup(segHandlers)

\* a faulty variant of OpSplitBodyCarving.propagateDirty, which marks the
\* entire domain dirty for RavelerLabels too
OpSplitBodyCarving_propagateDirty_Whole(slot, roi) ==
    IF slot = "RavelerLabels" \/ slot = "CurrentRavelerLabel"
    THEN <<SetDirtyCall("MaskedSegmentation", SliceNone)>>
    ELSE OpCarving_propagateDirty(slot, roi)

\* the setDirty calls OpSplitBodyCarving.propagateDirty makes
OpSplitBodyCarving_propagateDirty(slot, roi) ==
    IF slot = "RavelerLabels"
    THEN <<SetDirtyCall("MaskedSegmentation", Bounded(roi.start, roi.stop))>>
    ELSE IF slot = "CurrentRavelerLabel"
    THEN <<SetDirtyCall("MaskedSegmentation", SliceNone)>>
    ELSE OpCarving_propagateDirty(slot, roi)

\* handleDirtySegmentation(slot, roi): the call one closure makes
handleDirtySegmentation(roi) ==
    SetDirtyCall("MaskedSegmentation", Bounded(roi.start, roi.stop))

\* the connections made in OpSplitBodyCarving.__init__: the slot of
\* OpHighlightLabel an input of OpSplitBodyCarving feeds, "" when none
HighlighterSlot(slot) ==
    IF slot = "RavelerLabels" THEN "Input"
    ELSE IF slot = "CurrentRavelerLabel" THEN "HighlightLabel"
    ELSE ""

(***************************************************************************)
(* Delivery of dirty events: a setDirty on a slot calls every callback      *)
(* subscribed to it once, synchronously, with the region.                  *)
(***************************************************************************)
RECURSIVE CallsOn(_, _)
CallsOn(calls, slot) ==
    IF calls = <<>> THEN <<>>
    ELSE (IF Head(calls).slot = slot THEN <<Head(calls).arg>> ELSE <<>>)
             \o CallsOn(Tail(calls), slot)

RECURSIVE Repeat(_, _)
Repeat(q, n) == IF n = 0 THEN <<>> ELSE q \o Repeat(q, n - 1)

\* the calls the closures subscribed to Segmentation make for the setDirty
\* calls on Segmentation: every closure is called for every one of them
RECURSIVE SegmentationFanOut(_, _)
SegmentationFanOut(args, handlers) ==
    IF args = <<>> THEN <<>>
    ELSE Repeat(<<handleDirtySegmentation(
                      NotifiedRegion(Head(args), segMeta.shape))>>, handlers)
             \o SegmentationFanOut(Tail(args), handlers)

RECURSIVE Regions(_, _)
Regions(args, shape) ==
    IF args = <<>> THEN <<>>
    ELSE <<NotifiedRegion(Head(args), shape)>> \o Regions(Tail(args), shape)

\* what every subscriber of MaskedSegmentation is told when the operator
\* makes these setDirty calls
MaskedNotifications(calls) ==
    Regions(CallsOn(calls, "MaskedSegmentation")
              \o CallsOn(SegmentationFanOut(CallsOn(calls, "Segmentation"), segHandlers),
                         "MaskedSegmentation"),
            maskedMeta.shape)

NoEvent == [slot |-> "", roi |-> MkRoi(<<>>, <<>>)]

\* setupOutputs has run: dirty events reach a configured operator only
Configured == segHandlers >= 1

InitCarving ==
    /\ rawMeta = NoMeta
    /\ ravelerMeta = NoMeta
    /\ segMeta = NoMeta
    /\ maskedMeta = NoMeta
    /\ hlOutMeta = NoMeta
    /\ segHandlers = 0
    /\ maskedSubs = {}
    /\ received = [s \in {} |-> <<>>]
    /\ hlReceived = <<>>
    /\ lastEvent = NoEvent
    /\ carvOp = "init"

ClearEvent(subs) ==
    /\ received' = [s \in subs |-> <<>>]
    /\ hlReceived' = <<>>
    /\ lastEvent' = NoEvent

\* setupOutputs of OpSplitBodyCarving runs once both input volumes have
\* their metadata; until then the operator is left as it is.
SetupWhenReady(raw, raveler) ==
    IF raw # NoMeta /\ raveler # NoMeta
    THEN segHandlers < MaxSetups /\ OpSplitBodyCarving_setupOutputs(raw)
    ELSE UNCHANGED <<segMeta, maskedMeta, segHandlers>>

\* The metadata of the input volume changes.
SetRawMeta ==
    /\ \E shape \in Shapes :
        /\ Meta(shape) # rawMeta
        /\ rawMeta' = Meta(shape)
    /\ SetupWhenReady(rawMeta', ravelerMeta)
    /\ carvOp' = "setRawMeta"
    /\ ClearEvent(maskedSubs)
    /\ UNCHANGED <<ravelerMeta, hlOutMeta, maskedSubs>>
    /\ UNCHANGED notCarvVars

\* The metadata of RavelerLabels changes: setupOutputs of OpHighlightLabel
\* runs too.
SetRavelerMeta ==
    /\ \E shape \in Shapes :
        /\ Meta(shape) # ravelerMeta
        /\ ravelerMeta' = Meta(shape)
    /\ hlOutMeta' = OpHighlightLabel_setupOutputs(ravelerMeta')
    /\ SetupWhenReady(rawMeta, ravelerMeta')
    /\ carvOp' = "setRavelerMeta"
    /\ ClearEvent(maskedSubs)
    /\ UNCHANGED <<rawMeta, maskedSubs>>
    /\ UNCHANGED notCarvVars

\* setupOutputs of OpSplitBodyCarving runs again, its inputs unchanged.
SplitSetupOutputsAgain ==
    /\ Configured
    /\ segHandlers < MaxSetups
    /\ OpSplitBodyCarving_setupOutputs(rawMeta)
    /\ carvOp' = "splitSetupOutputs"
    /\ ClearEvent(maskedSubs)
    /\ UNCHANGED <<rawMeta, ravelerMeta, hlOutMeta, maskedSubs>>
    /\ UNCHANGED notCarvVars

\* setupOutputs of OpHighlightLabel runs again, its inputs unchanged.
HighlightSetupOutputsAgain ==
    /\ Configured
    /\ hlOutMeta' = OpHighlightLabel_setupOutputs(ravelerMeta)
    /\ carvOp' = "highlightSetupOutputs"
    /\ ClearEvent(maskedSubs)
    /\ UNCHANGED <<rawMeta, ravelerMeta, segMeta, maskedMeta, segHandlers, maskedSubs>>
    /\ UNCHANGED notCarvVars

\* MaskedSegmentation.notifyDirty(callback): the callbacks are numbered in
\* the order they subscribe
SubscribeMasked ==
    /\ Cardinality(maskedSubs) < MaxSubs
    /\ maskedSubs' = maskedSubs \cup {Cardinality(maskedSubs) + 1}
    /\ carvOp' = "notifyDirty"
    /\ ClearEvent(maskedSubs')
    /\ UNCHANGED <<rawMeta, ravelerMeta, segMeta, maskedMeta, hlOutMeta, segHandlers>>
    /\ UNCHANGED notCarvVars

Deliver(slot, roi, calls, hlCalls) ==
    /\ received' = [s \in maskedSubs |-> MaskedNotifications(calls)]
    /\ hlReceived' = Regions(CallsOn(hlCalls, "Output"), hlOutMeta.shape)
    /\ lastEvent' = [slot |-> slot, roi |-> roi]
    /\ UNCHANGED <<rawMeta, ravelerMeta, segMeta, maskedMeta, hlOutMeta,
                   segHandlers, maskedSubs>>

\* The base operator marks Segmentation dirty over a region.
DirtySegmentation ==
    /\ Configured
    /\ \E roi \in RoisWithin(segMeta.shape) :
        Deliver("Segmentation", roi,
                <<SetDirtyCall("Segmentation", Bounded(roi.start, roi.stop))>>, <<>>)
    /\ carvOp' = "dirty"
    /\ UNCHANGED notCarvVars

\* An input of OpSplitBodyCarving becomes dirty over a region: propagateDirty
\* runs, and that of OpHighlightLabel for the slots connected to it.
DirtyInput ==
    /\ Configured
    /\ \E slot \in SplitInputSlots :
       \E roi \in (IF slot = "RavelerLabels" THEN RoisWithin(ravelerMeta.shape) ELSE Rois) :
          Deliver(slot, roi, OpSplitBodyCarving_propagateDirty(slot, roi),
                  IF HighlighterSlot(slot) = "" THEN <<>>
                  ELSE OpHighlightLabel_propagateDirty(HighlighterSlot(slot), roi).calls)
    /\ carvOp' = "dirty"
    /\ UNCHANGED notCarvVars

NextCarving ==
    \/ SetRawMeta
    \/ SetRavelerMeta
    \/ SplitSetupOutputsAgain
    \/ HighlightSetupOutputsAgain
    \/ SubscribeMasked
    \/ DirtySegmentation
    \/ DirtyInput

(***************************************************************************)
(* execute of OpSplitBodyCarving, and its propagateDirty, as the engine    *)
(* calls them on an operator whose volumes have the shape <<MaxShape, 1>>. *)
(***************************************************************************)
VolumeShape == <<MaxShape, 1>>

\* the positions of a region
Positions(roi) ==
    {<<x, y>> : x \in roi.start[1]..(roi.stop[1] - 1),
                y \in roi.start[2]..(roi.stop[2] - 1)}

\* the labels and segmentation values of a voxel
VoxelValues == {0, 1, 2}

Volumes == [Positions(EntireDomain(VolumeShape)) -> VoxelValues]

\* slot(roi.start, roi.stop).wait(): the data of the slot over the region
ReadRegion(volume, roi) == [p \in Positions(roi) |-> volume[p]]

\* a read of a slot made by execute: roi is slice(None) for .value
MkRead(slot, arg) == [slot |-> slot, arg |-> arg]

NoResult == [p \in {} |-> 0]

MkOutcome(result, reads, calls) == [result |-> result, reads |-> reads, calls |-> calls]

\* the output slots execute is called for: the one OpSplitBodyCarving
\* computes, and one it inherits from OpCarving
SplitOutputSlots == {"MaskedSegmentation", "Segmentation"}

\* OpCarving.execute for Segmentation
OpCarving_execute(slot, roi, seg) == MkOutcome(ReadRegion(seg, roi), <<>>, <<>>)

\* a faulty variant of the mask, which keeps every value
MaskWhere_KeepAll(ravelerLabels, current, result) == result

\* numpy.where(ravelerLabels == CurrentRavelerLabel.value, result, 0)
MaskWhere(ravelerLabels, current, result) ==
    [p \in DOMAIN result |-> IF ravelerLabels[p] = current THEN result[p] ELSE 0]

\* a faulty variant of OpSplitBodyCarving.execute, which masks every slot
OpSplitBodyCarving_execute_MaskAll(slot, roi, labels, seg, current) ==
    MkOutcome(MaskWhere(ReadRegion(labels, roi), current, ReadRegion(seg, roi)),
              <<MkRead("RavelerLabels", Bounded(roi.start, roi.stop)),
                MkRead("Segmentation", Bounded(roi.start, roi.stop)),
                MkRead("CurrentRavelerLabel", SliceNone)>>,
              <<>>)

\* OpSplitBodyCarving.execute(slot, subindex, roi, result)
OpSplitBodyCarving_execute(slot, roi, labels, seg, current) ==
    IF slot = "MaskedSegmentation"
    THEN LET ravelerLabels == ReadRegion(labels, roi)
             result        == ReadRegion(seg, roi)
         IN  MkOutcome(MaskWhere(ravelerLabels, current, result),
                       <<MkRead("RavelerLabels", Bounded(roi.start, roi.stop)),
                         MkRead("Segmentation", Bounded(roi.start, roi.stop)),
                         MkRead("CurrentRavelerLabel", SliceNone)>>,
                       <<>>)
    ELSE OpCarving_execute(slot, roi, seg)

\* the slots OpHighlightLabel.execute is called with: its output, and one
\* that is not
HighlightSlots == {"Output", "Input"}

\* the outcome of an execute whose assertion fails
AssertionFailed == MkOutcome(NoResult, <<>>, <<"AssertionError">>)

\* numpy.where( result == self.HighlightLabel.value, 1, 0 )
HighlightWhere(result, label) ==
    [p \in DOMAIN result |-> IF result[p] = label THEN 1 ELSE 0]

\* a faulty variant of OpHighlightLabel.execute without the test for label 0
OpHighlightLabel_execute_NoZeroTest(slot, roi, input, label) ==
    IF slot # "Output" THEN AssertionFailed
    ELSE MkOutcome(HighlightWhere(ReadRegion(input, roi), label),
                   <<MkRead("HighlightLabel", SliceNone),
                     MkRead("Input", Bounded(roi.start, roi.stop)),
                     MkRead("HighlightLabel", SliceNone)>>,
                   <<>>)

\* OpHighlightLabel.execute(slot, subindex, roi, result)
OpHighlightLabel_execute(slot, roi, input, label) ==
    IF slot # "Output" THEN AssertionFailed
    ELSE IF label = 0
    THEN MkOutcome([p \in Positions(roi) |-> 0],
                   <<MkRead("HighlightLabel", SliceNone)>>,
                   <<>>)
    ELSE MkOutcome(HighlightWhere(ReadRegion(input, roi), label),
                   <<MkRead("HighlightLabel", SliceNone),
                     MkRead("Input", Bounded(roi.start, roi.stop)),
                     MkRead("HighlightLabel", SliceNone)>>,
                   <<>>)

MkCall(method, slot, roi) == [method |-> method, slot |-> slot, roi |-> roi]

NoCall == MkCall("", "", MkRoi(<<>>, <<>>))

InitExec ==
    /\ exRavelerLabels \in Volumes
    /\ exSegmentation \in Volumes
    /\ exCurrentLabel \in VoxelValues
    /\ exCall = NoCall
    /\ exOutcome = MkOutcome(NoResult, <<>>, <<>>)

IdleExec ==
    /\ exRavelerLabels = NoResult
    /\ exSegmentation = NoResult
    /\ exCurrentLabel = 0
    /\ exCall = NoCall
    /\ exOutcome = MkOutcome(NoResult, <<>>, <<>>)

\* The engine calls execute for an output slot and a region of it.  Neither
\* method keeps state between calls, so a behaviour makes one call.
SplitExecute ==
    /\ exCall = NoCall
    /\ \E slot \in SplitOutputSlots : \E roi \in RoisWithin(VolumeShape) :
          /\ exCall' = MkCall("execute", slot, roi)
          /\ exOutcome' = OpSplitBodyCarving_execute(slot, roi, exRavelerLabels,
                                                     exSegmentation, exCurrentLabel)
    /\ UNCHANGED <<exRavelerLabels, exSegmentation, exCurrentLabel>>
    /\ UNCHANGED notExecVars

\* The engine calls propagateDirty for an input slot and a region of it.
SplitPropagateDirty ==
    /\ exCall = NoCall
    /\ \E slot \in SplitInputSlots : \E roi \in RoisWithin(VolumeShape) :
          /\ exCall' = MkCall("propagateDirty", slot, roi)
          /\ exOutcome' = MkOutcome(NoResult, <<>>,
                                    OpSplitBodyCarving_propagateDirty(slot, roi))
    /\ UNCHANGED <<exRavelerLabels, exSegmentation, exCurrentLabel>>
    /\ UNCHANGED notExecVars

\* execute of the inner OpHighlightLabel is called: its Input is connected
\* to RavelerLabels and its HighlightLabel to CurrentRavelerLabel
HighlightExecute ==
    /\ exCall = NoCall
    /\ \E slot \in HighlightSlots : \E roi \in RoisWithin(VolumeShape) :
          /\ exCall' = MkCall("OpHighlightLabel.execute", slot, roi)
          /\ exOutcome' = OpHighlightLabel_execute(slot, roi, exRavelerLabels,
                                                   exCurrentLabel)
    /\ UNCHANGED <<exRavelerLabels, exSegmentation, exCurrentLabel>>
    /\ UNCHANGED notExecVars

NextExec ==
    \/ SplitExecute
    \/ SplitPropagateDirty
    \/ HighlightExecute

(***************************************************************************)
(* PixelClassificationSerializer: the dirty flags and their handlers.      *)
(***************************************************************************)
\* class Section
Sections == {"Labels", "Classifier", "Predictions"}

\* _initDirtyFlags: the value it gives self._dirtyFlags
initDirtyFlags == [s \in Sections |-> FALSE]

\* handleDirty(section)
handleDirty(flags, section) == [flags EXCEPT ![section] = TRUE]

\* isDirty()
isDirty(flags) == \E s \in Sections : flags[s]

MkSlot(name, index) == [slot |-> name, index |-> index]

\* a subscription made with slot.notifyDirty( bind(handleDirty, section) )
MkSub(slot, section) == [slot |-> slot, section |-> section]

\* a faulty variant of handleNewImage, which subscribes to the first
\* sub-slot whatever the index
handleNewImage_First(subs, section, name, index) ==
    subs \cup {MkSub(MkSlot(name, 1), section)}

\* handleNewImage(section, slot, index): the subscriptions after it
handleNewImage(subs, section, name, index) ==
    subs \cup {MkSub(MkSlot(name, index), section)}

\* the subscription __init__ makes on the Classifier slot
ClassifierSub == MkSub(MkSlot("Classifier", 0), "Classifier")

\* the callbacks __init__ subscribes with notifyInserted: for a new image
\* at this index, handleNewImage runs for LabelImages and for
\* PredictionProbabilities
ImageInserted(subs, index) ==
    handleNewImage(handleNewImage(subs, "Labels", "LabelImages", index),
                   "Predictions", "PredictionProbabilities", index)

(***************************************************************************)
(* The pixel classification operator, as far as the serializer uses it.    *)
(* Images are numbered from 1 here, from 0 in the code.                    *)
(***************************************************************************)
\* the classifiers training can give
Classifiers == {"rfA", "rfB"}

\* the one block of labels an image holds in this model, and where it lies
LabelBlockSlicing == <<MkSlice(0, 10), MkSlice(7, MaxCoord)>>

LabelBlock == [slicing |-> LabelBlockSlicing, data |-> 1]

\* the labels of an image: no block, or the block
LaneLabels == {<<>>, <<LabelBlock>>}

\* LabelInputs[index][slicing] = data: the blocks of the image after it
RECURSIVE WriteBlock(_, _, _)
WriteBlock(blocks, sl, data) ==
    IF blocks = <<>> THEN <<[slicing |-> sl, data |-> data]>>
    ELSE IF Head(blocks).slicing = sl
         THEN <<[slicing |-> sl, data |-> data]>> \o Tail(blocks)
         ELSE <<Head(blocks)>> \o WriteBlock(Tail(blocks), sl, data)

\* multi-slot resize(n): the surviving images keep their labels, the new
\* ones have none
Resize(labels, n) ==
    [i \in 1..n |-> IF i <= Len(labels) THEN labels[i] ELSE <<>>]

\* the subscriptions after resize(n): those on removed sub-slots go with
\* them, and every inserted index is announced with notifyInserted
RECURSIVE InsertImages(_, _, _)
InsertImages(subs, from, to) ==
    IF from > to THEN subs
    ELSE InsertImages(ImageInserted(subs, from), from + 1, to)

ResizeSubs(subs, old, n) ==
    InsertImages({u \in subs : u.slot.index <= n}, old + 1, n)

\* the slots marked dirty when the input of the classifier cache is: the
\* classifier, and the predictions of every image
DirtyFromCacheInput(n) ==
    {MkSlot("classifier_cache.Input", 0), MkSlot("Classifier", 0)}
        \cup {MkSlot("PredictionProbabilities", j) : j \in 1..n}

\* the slots marked dirty when labels of image i are written
DirtyFromLabels(i, n) == {MkSlot("LabelImages", i)} \cup DirtyFromCacheInput(n)

\* the slots marked dirty by classifier_cache.forceValue
DirtyFromForce(n) ==
    {MkSlot("Classifier", 0)} \cup {MkSlot("PredictionProbabilities", j) : j \in 1..n}

\* the sections whose handleDirty is called when these slots are marked dirty
FiredSections(subs, slots) == {u.section : u \in {v \in subs : v.slot \in slots}}

\* the flags after handleDirty has run for these sections
RECURSIVE HandleAll(_, _)
HandleAll(flags, sections) ==
    IF sections = {} THEN flags
    ELSE LET s == CHOOSE x \in sections : TRUE
         IN  HandleAll(handleDirty(flags, s), sections \ {s})

(***************************************************************************)
(* The notifications of one operation, in the order they are delivered:    *)
(* a sub-slot was inserted, a sub-slot was removed, a slot is dirty.       *)
(***************************************************************************)
MkEvent(kind, slot) == [kind |-> kind, slot |-> slot]

\* the multi-slots of the operator that are resized in lockstep
MultiSlots == <<"LabelInputs", "LabelImages", "PredictionProbabilities">>

EventsAt(kind, index) == [k \in 1..Len(MultiSlots) |-> MkEvent(kind, MkSlot(MultiSlots[k], index))]

\* multi-slot resize(n) from old sub-slots: every new index is announced
\* with notifyInserted, every index that goes with notifyRemoved, last first
RECURSIVE ResizeEvents(_, _)
ResizeEvents(old, n) ==
    IF old < n THEN EventsAt("inserted", old + 1) \o ResizeEvents(old + 1, n)
    ELSE IF old > n THEN EventsAt("removed", old) \o ResizeEvents(old - 1, n)
    ELSE <<>>

\* these slots are marked dirty by one change; the order among them is not
\* specified, one order stands for all
RECURSIVE DirtyEvents(_)
DirtyEvents(slots) ==
    IF slots = {} THEN <<>>
    ELSE LET s == CHOOSE x \in slots : TRUE
         IN  <<MkEvent("dirty", s)>> \o DirtyEvents(slots \ {s})

\* the dirty events of the loop of _deserializeLabels, from image i on: one
\* assignment to LabelInputs[index] per stored block
RECURSIVE AssignEvents(_, _)
AssignEvents(labelSets, i) ==
    IF i > Len(labelSets) THEN <<>>
    ELSE Repeat(DirtyEvents(DirtyFromLabels(i, Len(labelSets))), Len(labelSets[i]))
             \o AssignEvents(labelSets, i + 1)

\* a faulty variant of _deserializeLabels, which assigns the blocks before
\* it resizes LabelInputs
deserializeLabelsEvents_AssignFirst(old, labelSets) ==
    AssignEvents(labelSets, 1) \o ResizeEvents(old, Len(labelSets))

\* the notifications of _deserializeLabels: LabelInputs.resize(numImages)
\* comes first, the assignments follow
deserializeLabelsEvents(old, labelSets) ==
    ResizeEvents(old, Len(labelSets)) \o AssignEvents(labelSets, 1)

\* the subscriptions after the serializer's callbacks have run for an event:
\* handleNewImage for an insertion into LabelImages or
\* PredictionProbabilities; the callbacks on a removed sub-slot go with it
SubsAfterEvent(subs, e) ==
    IF e.kind = "inserted" /\ e.slot.slot = "LabelImages"
    THEN handleNewImage(subs, "Labels", "LabelImages", e.slot.index)
    ELSE IF e.kind = "inserted" /\ e.slot.slot = "PredictionProbabilities"
    THEN handleNewImage(subs, "Predictions", "PredictionProbabilities", e.slot.index)
    ELSE IF e.kind = "removed" THEN {u \in subs : u.slot # e.slot}
    ELSE subs

\* the subscriptions in place when event k of evs is delivered
RECURSIVE SubsAt(_, _, _)
SubsAt(subs, evs, k) ==
    IF k = 1 THEN subs ELSE SubsAfterEvent(SubsAt(subs, evs, k - 1), evs[k - 1])

\* the number of sub-slots of a multi-slot when event k of evs is delivered
RECURSIVE SizeAt(_, _, _, _)
SizeAt(name, old, evs, k) ==
    IF k = 1 THEN old
    ELSE SizeAt(name, old, evs, k - 1)
             + (IF evs[k - 1].slot.slot # name THEN 0
                ELSE IF evs[k - 1].kind = "inserted" THEN 1
                ELSE IF evs[k - 1].kind = "removed" THEN -1 ELSE 0)

\* the classifier cache
NoClassifier == "None"

MkCache(value, dirty, forced) == [value |-> value, dirty |-> dirty, forced |-> forced]

\* classifier_cache.forceValue(classifier)
ForceValue(classifier) == MkCache(classifier, FALSE, TRUE)

\* classifier_cache.Input.setDirty: the value is computed anew when next read
CacheInputDirty(c) == MkCache(c.value, TRUE, FALSE)

\* Classifier.ready()
ClassifierReady(labels, c) == Len(labels) > 0 \/ c.forced

\* the classifiers training on these labels can give: none without labels
Trained(labels) ==
    IF \A i \in 1..Len(labels) : labels[i] = <<>>
    THEN {NoClassifier} ELSE Classifiers

\* the caches a read of Classifier.value can leave: a dirty cache trains
CachesAfterRead(labels, c) ==
    IF c.dirty THEN {MkCache(v, FALSE, FALSE) : v \in Trained(labels)} ELSE {c}

(***************************************************************************)
(* The project file: the serializer's group, its LabelSets and Classifier. *)
(***************************************************************************)
MkGroup(exists, hasLabelSets, labelSets, classifier) ==
    [exists |-> exists, hasLabelSets |-> hasLabelSets,
     labelSets |-> labelSets, classifier |-> classifier]

\* no group for this applet in the file (topGroup is None)
NoGroup == MkGroup(FALSE, FALSE, <<>>, NoClassifier)

\* a block as _serializeLabels stores it: the data, and the attribute blockSlice
RECURSIVE StoredBlocks(_)
StoredBlocks(blocks) ==
    IF blocks = <<>> THEN <<>>
    ELSE <<[blockSlice |-> slicingToString(Head(blocks).slicing),
            data |-> Head(blocks).data]>> \o StoredBlocks(Tail(blocks))

\* _serializeLabels: the LabelSets group it writes
serializeLabels(labels) == [i \in 1..Len(labels) |-> StoredBlocks(labels[i])]

\* _serializeClassifier: the classifier in the file after it, given the
\* cache after the read of Classifier.value
serializeClassifier(labels, c) ==
    IF ~ClassifierReady(labels, c) THEN NoClassifier ELSE c.value

\* the blocks of an image after the loop of _deserializeLabels over the
\* stored blocks of that image
RECURSIVE AssignBlocks(_, _)
AssignBlocks(blocks, stored) ==
    IF stored = <<>> THEN blocks
    ELSE AssignBlocks(WriteBlock(blocks,
                                 stringToSlicing(Head(stored).blockSlice).slicing,
                                 Head(stored).data),
                      Tail(stored))

\* _deserializeLabels: the labels of the operator after it
deserializeLabels(labels, labelSets) ==
    LET resized == Resize(labels, Len(labelSets))
    IN  [i \in 1..Len(labelSets) |-> AssignBlocks(resized[i], labelSets[i])]

\* the slots marked dirty by the assignments of _deserializeLabels
DirtyFromLoadedLabels(labelSets) ==
    UNION {DirtyFromLabels(i, Len(labelSets)) :
              i \in {j \in 1..Len(labelSets) : labelSets[j] # <<>>}}

\* a faulty variant of _deserializeClassifier, which reads the classifier
\* and does not force it into the cache
deserializeClassifier_NoForce(c, group) == c

\* _deserializeClassifier: the cache after it
deserializeClassifier(c, group) ==
    IF group.classifier = NoClassifier THEN c ELSE ForceValue(group.classifier)

\* the slots _deserializeClassifier marks dirty
DirtyFromLoadedClassifier(group, n) ==
    IF group.classifier = NoClassifier THEN {} ELSE DirtyFromForce(n)

\* the notifications of _deserializeFromHdf5: those of _deserializeLabels,
\* then those of forceValue
deserializeEvents(old, group) ==
    deserializeLabelsEvents(old, group.labelSets)
        \o DirtyEvents(DirtyFromLoadedClassifier(group, Len(group.labelSets)))

\* a faulty variant of unload(), which leaves LabelInputs as it is
unload_Keep(labels) == labels

\* unload(): LabelInputs after LabelInputs.resize(0)
unload(labels) == Resize(labels, 0)

\* the notifications of unload(): those of the resize, then those of
\* classifier_cache.Input.setDirty( slice(None) )
unloadEvents(labels) ==
    ResizeEvents(Len(labels), Len(unload(labels)))
        \o DirtyEvents(DirtyFromCacheInput(Len(unload(labels))))

\* the groups a project file can hold
StoredLanes == {StoredBlocks(l) : l \in LaneLabels}

Groups ==
    {NoGroup}
        \cup {MkGroup(TRUE, FALSE, <<>>, c) : c \in Classifiers \cup {NoClassifier}}
        \cup {MkGroup(TRUE, TRUE, ls, c) :
                  ls \in SeqsUpTo(StoredLanes, MaxLanes),
                  c \in Classifiers \cup {NoClassifier}}

(***************************************************************************)
(* The serializer and its operator as a state machine.                     *)
(***************************************************************************)
\* the flags after the sections of _serializeToHdf5 have run, before its
\* last statement: _serializeLabels and _serializeClassifier each clear
\* their own flag, and the section of the predictions is commented out
FlagsAfterSections(flags) ==
    LET afterLabels == IF flags["Labels"]
                       THEN [flags EXCEPT !["Labels"] = FALSE] ELSE flags
    IN  IF afterLabels["Classifier"]
        THEN [afterLabels EXCEPT !["Classifier"] = FALSE] ELSE afterLabels

\* a faulty variant of _serializeToHdf5 without its last statement
serializeFlags_NoInit(flags) == FlagsAfterSections(flags)

\* the flags when _serializeToHdf5 returns: its last statement is
\* self._initDirtyFlags()
serializeFlags(flags) == initDirtyFlags

\* the sections _serializeToHdf5 writes
serializedSections(flags) == {s \in {"Labels", "Classifier"} : flags[s]}

\* the flags when _deserializeFromHdf5 returns, given the subscriptions after
\* the resize: the label assignments fire callbacks, the Labels flag is
\* cleared, forceValue fires callbacks, the Classifier flag is cleared
deserializeFlags(flags, subs, group) ==
    LET n            == Len(group.labelSets)
        afterAssign  == HandleAll(flags,
                            FiredSections(subs, DirtyFromLoadedLabels(group.labelSets)))
        afterLabels  == [afterAssign EXCEPT !["Labels"] = FALSE]
        afterForce   == HandleAll(afterLabels,
                            FiredSections(subs, DirtyFromLoadedClassifier(group, n)))
    IN  [afterForce EXCEPT !["Classifier"] = FALSE]

\* the state __init__ leaves, whatever the project file
SerializerConstructed ==
    /\ dirtyFlags = initDirtyFlags
    /\ dirtySubs = {ClassifierSub}
    /\ labelInputs = <<>>
    /\ cache = MkCache(NoClassifier, TRUE, FALSE)
    /\ serOp = "init"
    /\ flagsBefore = initDirtyFlags
    /\ notified = {}
    /\ fired = {}
    /\ acted = {}
    /\ retrained = FALSE
    /\ events = <<>>

InitSerializer == SerializerConstructed /\ projectFile \in Groups

IdleSerializer == SerializerConstructed /\ projectFile = NoGroup

\* what an operation that fires no callback and is no save or load records
Quiet(op) ==
    /\ serOp' = op
    /\ flagsBefore' = initDirtyFlags
    /\ notified' = {}
    /\ fired' = {}
    /\ acted' = {}
    /\ UNCHANGED dirtyFlags

\* what a structural change of the multi-slots records
Resized(op, old, n) ==
    /\ Quiet(op)
    /\ events' = ResizeEvents(old, n)

\* these slots are marked dirty: the subscribed callbacks run
Notify(op, subs, slots) ==
    /\ serOp' = op
    /\ flagsBefore' = initDirtyFlags
    /\ notified' = slots
    /\ fired' = FiredSections(subs, slots)
    /\ acted' = {}
    /\ dirtyFlags' = HandleAll(dirtyFlags, FiredSections(subs, slots))

\* these slots are marked dirty by one change of a slot of the operator
NotifyChange(op, subs, slots) ==
    /\ Notify(op, subs, slots)
    /\ events' = DirtyEvents(slots)

\* The user adds an image: the multi-slots are resized by one.
AddImage ==
    /\ Len(labelInputs) < MaxLanes
    /\ labelInputs' = Resize(labelInputs, Len(labelInputs) + 1)
    /\ dirtySubs' = ResizeSubs(dirtySubs, Len(labelInputs), Len(labelInputs) + 1)
    /\ Resized("addImage", Len(labelInputs), Len(labelInputs) + 1)
    /\ retrained' = FALSE
    /\ UNCHANGED <<cache, projectFile>>
    /\ UNCHANGED notSerVars

\* The user draws or erases the labels of an image.
WriteLabel ==
    /\ \E i \in 1..Len(labelInputs) :
       \E l \in LaneLabels \ {labelInputs[i]} :
          /\ labelInputs' = [labelInputs EXCEPT ![i] = l]
          /\ NotifyChange("writeLabel", dirtySubs, DirtyFromLabels(i, Len(labelInputs)))
    /\ cache' = CacheInputDirty(cache)
    /\ retrained' = FALSE
    /\ UNCHANGED <<dirtySubs, projectFile>>
    /\ UNCHANGED notSerVars

\* Another training input (the features) changes.
TrainingInputDirty ==
    /\ NotifyChange("trainingInputDirty", dirtySubs,
                    DirtyFromCacheInput(Len(labelInputs)))
    /\ cache' = CacheInputDirty(cache)
    /\ retrained' = FALSE
    /\ UNCHANGED <<dirtySubs, labelInputs, projectFile>>
    /\ UNCHANGED notSerVars

\* Classifier.value is read.
ReadClassifier ==
    /\ ClassifierReady(labelInputs, cache)
    /\ cache' \in CachesAfterRead(labelInputs, cache)
    /\ retrained' = cache.dirty
    /\ Quiet("readClassifier")
    /\ events' = <<>>
    /\ UNCHANGED <<dirtySubs, labelInputs, projectFile>>
    /\ UNCHANGED notSerVars

\* _serializeToHdf5
Serialize ==
    /\ cache' \in (IF dirtyFlags["Classifier"] /\ ClassifierReady(labelInputs, cache)
                   THEN CachesAfterRead(labelInputs, cache) ELSE {cache})
    /\ retrained' = (dirtyFlags["Classifier"] /\ ClassifierReady(labelInputs, cache)
                        /\ cache.dirty)
    /\ projectFile' =
         MkGroup(TRUE,
                 dirtyFlags["Labels"] \/ projectFile.hasLabelSets,
                 IF dirtyFlags["Labels"] THEN serializeLabels(labelInputs)
                                         ELSE projectFile.labelSets,
                 IF dirtyFlags["Classifier"] THEN serializeClassifier(labelInputs, cache')
                                             ELSE projectFile.classifier)
    /\ acted' = serializedSections(dirtyFlags)
    /\ dirtyFlags' = serializeFlags(dirtyFlags)
    /\ flagsBefore' = dirtyFlags
    /\ serOp' = "save"
    /\ notified' = {}
    /\ fired' = {}
    /\ events' = <<>>
    /\ UNCHANGED <<dirtySubs, labelInputs>>
    /\ UNCHANGED notSerVars

\* _deserializeFromHdf5 when the file holds no group: it returns at once.
DeserializeNone ==
    /\ ~projectFile.exists
    /\ Quiet("loadNone")
    /\ events' = <<>>
    /\ retrained' = FALSE
    /\ UNCHANGED <<dirtySubs, labelInputs, cache, projectFile>>
    /\ UNCHANGED notSerVars

\* _deserializeFromHdf5 when the group holds no LabelSets: topGroup['LabelSets']
\* raises KeyError before anything is changed.
DeserializeKeyError ==
    /\ projectFile.exists /\ ~projectFile.hasLabelSets
    /\ Quiet("loadKeyError")
    /\ events' = <<>>
    /\ retrained' = FALSE
    /\ UNCHANGED <<dirtySubs, labelInputs, cache, projectFile>>
    /\ UNCHANGED notSerVars

\* _deserializeFromHdf5: _deserializeLabels, then _deserializeClassifier
Deserialize ==
    /\ projectFile.exists /\ projectFile.hasLabelSets
    /\ LET n     == Len(projectFile.labelSets)
           subs  == ResizeSubs(dirtySubs, Len(labelInputs), n)
           slots == DirtyFromLoadedLabels(projectFile.labelSets)
                        \cup DirtyFromLoadedClassifier(projectFile, n)
       IN  /\ dirtySubs' = subs
           /\ labelInputs' = deserializeLabels(labelInputs, projectFile.labelSets)
           /\ cache' = deserializeClassifier(
                           IF DirtyFromLoadedLabels(projectFile.labelSets) # {}
                           THEN CacheInputDirty(cache) ELSE cache,
                           projectFile)
           /\ notified' = slots
           /\ fired' = FiredSections(subs, slots)
           /\ dirtyFlags' = deserializeFlags(dirtyFlags, subs, projectFile)
           /\ events' = deserializeEvents(Len(labelInputs), projectFile)
    /\ flagsBefore' = dirtyFlags
    /\ serOp' = "load"
    /\ acted' = {}
    /\ retrained' = FALSE
    /\ UNCHANGED projectFile
    /\ UNCHANGED notSerVars

\* unload(): LabelInputs.resize(0), then classifier_cache.Input.setDirty
Unload ==
    /\ labelInputs' = unload(labelInputs)
    /\ dirtySubs' = ResizeSubs(dirtySubs, Len(labelInputs), Len(labelInputs'))
    /\ cache' = CacheInputDirty(cache)
    /\ Notify("unload", dirtySubs', DirtyFromCacheInput(Len(labelInputs')))
    /\ events' = unloadEvents(labelInputs)
    /\ retrained' = FALSE
    /\ UNCHANGED projectFile
    /\ UNCHANGED notSerVars

NextSerializer ==
    \/ AddImage
    \/ WriteLabel
    \/ TrainingInputDirty
    \/ ReadClassifier
    \/ Serialize
    \/ DeserializeNone
    \/ DeserializeKeyError
    \/ Deserialize
    \/ Unload

(***************************************************************************)
(* MulticutGuiMixin: the pens of the superpixel edge probability layer.    *)
(* The main thread runs setupLayers and the calls routed to it; every      *)
(* Request runs on a worker thread, one statement of _impl at a time.      *)
(***************************************************************************)
\* the probabilities the edge takes, in thousandths
Probabilities == {0, 505, 1000}

\* int(probability * 100): the index into probability_pen_table
PenIndex(probability) == probability \div 10

\* the pen of an edge no pen was set for
DefaultPen == -1

\* a Request and where it is: "submitted", "computed" (edge_probs was read
\* and new_pens built), "routed" (it waits in __apply_new_probability_edges
\* for the main thread), "done", or "raised" with the error
MkRequest(pc, newPens, error) == [pc |-> pc, new_pens |-> newPens, error |-> error]

\* Request(_impl).submit(): the requests after it
Submit(reqs) == Append(reqs, MkRequest("submitted", DefaultPen, ""))

\* __update_probability_edges(*args): it submits a Request that will run
\* _impl and returns
update_probability_edges(reqs, layer, probs) == Submit(reqs)

\* a faulty variant of __apply_new_probability_edges without @threadRouted
apply_new_probability_edges_thread_Caller(caller) == caller

\* the thread the body of __apply_new_probability_edges runs on: it is
\* @threadRouted
apply_new_probability_edges_thread(caller) == "main"

\* EdgeProbabilitiesDict.value, read by _impl: the outcomes of the read
ReadEdgeProbs ==
    IF ~epReady THEN {MkRequest("raised", DefaultPen, "NotReadyError")}
    ELSE {MkRequest("computed", PenIndex(edgeProbs), ""),
          MkRequest("raised", DefaultPen, "ComputeError")}

NoMutation == [thread |-> "", layer |-> 0]

InitEdges ==
    /\ superpixel_edge_layer = 0
    /\ layersMade = 0
    /\ pen_table = <<>>
    /\ edgeProbs \in Probabilities
    /\ spReady \in BOOLEAN
    /\ epReady \in BOOLEAN
    /\ requests = <<>>
    /\ routedQueue = <<>>
    /\ mainPc = "idle"
    /\ lastMutation = NoMutation
    /\ edgeOp = "init"

IdleEdges ==
    /\ superpixel_edge_layer = 0
    /\ layersMade = 0
    /\ pen_table = <<>>
    /\ edgeProbs = 0
    /\ spReady = FALSE
    /\ epReady = FALSE
    /\ requests = <<>>
    /\ routedQueue = <<>>
    /\ mainPc = "idle"
    /\ lastMutation = NoMutation
    /\ edgeOp = "init"

\* A slot becomes ready or stops being ready.
ReadyChanges ==
    /\ \/ spReady' = ~spReady /\ UNCHANGED epReady
       \/ epReady' = ~epReady /\ UNCHANGED spReady
    /\ edgeOp' = "ready"
    /\ UNCHANGED <<superpixel_edge_layer, layersMade, pen_table, edgeProbs, requests,
                   routedQueue, mainPc, lastMutation>>
    /\ UNCHANGED notEdgeVars

\* EdgeProbabilitiesDict becomes dirty: __update_probability_edges runs on
\* the notifying thread.
EdgeProbsDirty ==
    /\ Len(requests) < MaxRequests
    /\ epReady
    /\ edgeProbs' \in Probabilities \ {edgeProbs}
    /\ requests' = update_probability_edges(requests, superpixel_edge_layer, edgeProbs')
    /\ edgeOp' = "dirty"
    /\ UNCHANGED <<superpixel_edge_layer, layersMade, pen_table, spReady, epReady,
                   routedQueue, mainPc, lastMutation>>
    /\ UNCHANGED notEdgeVars

\* setupLayers, up to self.superpixel_edge_layer = None
SetupLayersBegin ==
    /\ mainPc = "idle"
    /\ superpixel_edge_layer' = 0
    /\ mainPc' = "setupLayers"
    /\ edgeOp' = "setupLayersBegin"
    /\ UNCHANGED <<layersMade, pen_table, edgeProbs, spReady, epReady, requests,
                   routedQueue, lastMutation>>
    /\ UNCHANGED notEdgeVars

\* setupLayers, from the test of ready() on: the layer is created, made
\* current, and __update_probability_edges is called to initialize it
SetupLayersEnd ==
    /\ mainPc = "setupLayers"
    /\ IF spReady /\ epReady
       THEN /\ layersMade < MaxLayers
            /\ Len(requests) < MaxRequests
            /\ layersMade' = layersMade + 1
            /\ pen_table' = Append(pen_table, DefaultPen)
            /\ superpixel_edge_layer' = layersMade'
            /\ requests' = update_probability_edges(requests, superpixel_edge_layer',
                                                    edgeProbs)
       ELSE UNCHANGED <<layersMade, pen_table, superpixel_edge_layer, requests>>
    /\ mainPc' = "idle"
    /\ edgeOp' = "setupLayersEnd"
    /\ UNCHANGED <<edgeProbs, spReady, epReady, routedQueue, lastMutation>>
    /\ UNCHANGED notEdgeVars

\* A worker runs _impl up to new_pens: the test of the layer, the read of
\* EdgeProbabilitiesDict.value, the loop over the edges.
ImplCompute ==
    /\ \E r \in 1..Len(requests) :
          /\ requests[r].pc = "submitted"
          /\ \E after \in (IF superpixel_edge_layer = 0
                            THEN {MkRequest("done", DefaultPen, "")}
                            ELSE ReadEdgeProbs) :
                requests' = [requests EXCEPT ![r] = after]
    /\ edgeOp' = "implCompute"
    /\ UNCHANGED <<superpixel_edge_layer, layersMade, pen_table, edgeProbs, spReady,
                   epReady, routedQueue, mainPc, lastMutation>>
    /\ UNCHANGED notEdgeVars

\* A worker calls __apply_new_probability_edges(new_pens): the call is
\* routed to the main thread and the worker waits for it.
ImplApply ==
    /\ \E r \in 1..Len(requests) :
          /\ requests[r].pc = "computed"
          /\ requests' = [requests EXCEPT ![r].pc = "routed"]
          /\ routedQueue' = Append(routedQueue, r)
    /\ edgeOp' = "implApply"
    /\ UNCHANGED <<superpixel_edge_layer, layersMade, pen_table, edgeProbs, spReady,
                   epReady, mainPc, lastMutation>>
    /\ UNCHANGED notEdgeVars

\* The body of __apply_new_probability_edges runs for the first routed call:
\* self.superpixel_edge_layer.pen_table.update(new_pens)
ApplyRouted ==
    /\ mainPc = "idle"
    /\ routedQueue # <<>>
    /\ LET r == Head(routedQueue)
       IN  IF superpixel_edge_layer = 0
           THEN /\ requests' = [requests EXCEPT
                                   ![r] = MkRequest("raised", @.new_pens, "AttributeError")]
                /\ UNCHANGED <<pen_table, lastMutation>>
           ELSE /\ requests' = [requests EXCEPT ![r].pc = "done"]
                /\ pen_table' = [pen_table EXCEPT
                                    ![superpixel_edge_layer] = requests[r].new_pens]
                /\ lastMutation' = [thread |-> apply_new_probability_edges_thread("worker"),
                                    layer |-> superpixel_edge_layer]
    /\ routedQueue' = Tail(routedQueue)
    /\ edgeOp' = "applyRouted"
    /\ UNCHANGED <<superpixel_edge_layer, layersMade, edgeProbs, spReady, epReady, mainPc>>
    /\ UNCHANGED notEdgeVars

NextEdges ==
    \/ ReadyChanges
    \/ EdgeProbsDirty
    \/ SetupLayersBegin
    \/ SetupLayersEnd
    \/ ImplCompute
    \/ ImplApply
    \/ ApplyRouted

(***************************************************************************)
(* The worker pool: execute of OpSplitBodyCarving runs as a Request and    *)
(* waits for the Requests it makes on its inputs.  A Request that waits    *)
(* gives its worker up and goes on, on any free worker, when the Request   *)
(* it waits for is done.                                                   *)
(***************************************************************************)
\* a faulty variant of the reads of OpSplitBodyCarving.execute, which reads
\* MaskedSegmentation where the code reads Segmentation
NestedReads_OwnOutput(slot) ==
    IF slot = "MaskedSegmentation" THEN <<"RavelerLabels", "MaskedSegmentation">>
    ELSE <<>>

\* the slots OpSplitBodyCarving.execute reads with slot(start, stop).wait(),
\* in order; the inputs are read from sources that wait for nothing
NestedReads(slot) ==
    IF slot = "MaskedSegmentation" THEN <<"RavelerLabels", "Segmentation">>
    ELSE <<>>

\* the most Requests the outer requests lead to: each makes one per read
MaxPoolRequests == MaxOuter * (1 + Len(NestedReads("MaskedSegmentation")))

\* a Request: the slot, its parent (0 for an outer request), how many of
\* its reads have returned, and "queued", "running", "waiting", "resumable"
\* or "done"
MkPoolRequest(slot, parent, reads, pc) ==
    [slot |-> slot, parent |-> parent, reads |-> reads, pc |-> pc]

BusyWorkers == Cardinality({r \in 1..Len(poolRequests) : poolRequests[r].pc = "running"})

OuterRequests == {r \in 1..Len(poolRequests) : poolRequests[r].parent = 0}

InitPool ==
    /\ poolWorkers \in 1..MaxWorkers
    /\ poolRequests = <<>>

IdlePool ==
    /\ poolWorkers = 1
    /\ poolRequests = <<>>

\* MaskedSegmentation(start, stop) is requested from outside the pool.
SubmitOuter ==
    /\ Cardinality(OuterRequests) < MaxOuter
    /\ poolRequests' = Append(poolRequests,
                              MkPoolRequest("MaskedSegmentation", 0, 0, "queued"))
    /\ UNCHANGED poolWorkers
    /\ UNCHANGED notPoolVars

\* A free worker takes a Request that was not started.
StartRequest ==
    /\ BusyWorkers < poolWorkers
    /\ \E r \in 1..Len(poolRequests) :
          /\ poolRequests[r].pc = "queued"
          /\ poolRequests' = [poolRequests EXCEPT ![r].pc = "running"]
    /\ UNCHANGED poolWorkers
    /\ UNCHANGED notPoolVars

\* A free worker goes on with a Request whose wait() has returned.
ResumeRequest ==
    /\ BusyWorkers < poolWorkers
    /\ \E r \in 1..Len(poolRequests) :
          /\ poolRequests[r].pc = "resumable"
          /\ poolRequests' = [poolRequests EXCEPT ![r].pc = "running"]
    /\ UNCHANGED poolWorkers
    /\ UNCHANGED notPoolVars

\* A running execute reaches its next read: it makes the Request and waits.
NestedWait ==
    /\ Len(poolRequests) < MaxPoolRequests
    /\ \E r \in 1..Len(poolRequests) :
          /\ poolRequests[r].pc = "running"
          /\ poolRequests[r].reads < Len(NestedReads(poolRequests[r].slot))
          /\ poolRequests' =
                Append([poolRequests EXCEPT ![r].pc = "waiting"],
                       MkPoolRequest(NestedReads(poolRequests[r].slot)[poolRequests[r].reads + 1],
                                     r, 0, "queued"))
    /\ UNCHANGED poolWorkers
    /\ UNCHANGED notPoolVars

\* A running execute returns: the Request is done and the wait() of its
\* parent returns.
FinishRequest ==
    /\ \E r \in 1..Len(poolRequests) :
          /\ poolRequests[r].pc = "running"
          /\ poolRequests[r].reads = Len(NestedReads(poolRequests[r].slot))
          /\ poolRequests' =
                [q \in 1..Len(poolRequests) |->
                    IF q = r THEN [poolRequests[q] EXCEPT !.pc = "done"]
                    ELSE IF q = poolRequests[r].parent
                    THEN [poolRequests[q] EXCEPT !.pc = "resumable", !.reads = @ + 1]
                    ELSE poolRequests[q]]
    /\ UNCHANGED poolWorkers
    /\ UNCHANGED notPoolVars

\* what the workers do
PoolWork ==
    \/ StartRequest
    \/ ResumeRequest
    \/ NestedWait
    \/ FinishRequest

NextPool ==
    \/ SubmitOuter
    \/ PoolWork

(***************************************************************************)
(* MulticutGuiMixin: the Beta spin box, the solver combo box and the two   *)
(* update handlers.  The GUI thread runs the Qt slots; a dirty callback     *)
(* runs on the thread that changed the operator, the GUI thread or another. *)
(* A handler runs one statement at a time, and a callback or a slot called *)
(* from a statement runs to its end before the statement after it.         *)
(***************************************************************************)
Threads == {"gui", "op"}

\* QDoubleSpinBox(decimals=2, minimum=0.01, maximum=0.99), in hundredths
BetaBoxMinimum == 1
BetaBoxMaximum == 99

\* QDoubleSpinBox.setValue(v): the value the box shows after it
QDoubleSpinBox_setValue(v) ==
    IF v < BetaBoxMinimum THEN BetaBoxMinimum
    ELSE IF v > BetaBoxMaximum THEN BetaBoxMaximum ELSE v

\* the values the user gives the spin box, and those the operator is given
BoxValues == {10, 50}
Betas == {10, 50, 150}

\* AVAILABLE_SOLVER_NAMES and DEFAULT_SOLVER_NAME of opMulticut
AVAILABLE_SOLVER_NAMES == <<"solverA", "solverB">>
DEFAULT_SOLVER_NAME == "solverB"

\* the solver names the operator is given: one is of another machine
SolverNames == {"solverA", "solverB", "solverOfAnotherMachine"}

IsAvailable(name) ==
    \E i \in 1..Len(AVAILABLE_SOLVER_NAMES) : AVAILABLE_SOLVER_NAMES[i] = name

\* AVAILABLE_SOLVER_NAMES.index( name ), from 1
SolverIndex(name) ==
    CHOOSE i \in 1..Len(AVAILABLE_SOLVER_NAMES) : AVAILABLE_SOLVER_NAMES[i] = name

\* a handler call in progress: the handler, the statement it is at, and its
\* local solver_index
MkFrame(fn, pc, index) == [fn |-> fn, pc |-> pc, solver_index |-> index]

NewCall(fn) == MkFrame(fn, "guard", 0)

Depth(th) == Len(cfgStack[th])

Top(th) == cfgStack[th][Depth(th)]

At(th, fn, pc) == Depth(th) > 0 /\ Top(th).fn = fn /\ Top(th).pc = pc

AtEither(th, pc) == Depth(th) > 0 /\ Top(th).pc = pc

\* the stacks after the innermost call of the thread has returned
Return(th) == [cfgStack EXCEPT ![th] = SubSeq(@, 1, Len(@) - 1)]

\* the stacks after the innermost call of the thread has moved on
Goto(th, pc, index) ==
    [cfgStack EXCEPT ![th][Depth(th)] = MkFrame(Top(th).fn, pc, index)]

\* the stacks after the innermost call has moved on and called a handler
GotoAndCall(th, pc, index, fn) ==
    [cfgStack EXCEPT ![th] = Append(SubSeq(@, 1, Len(@) - 1),
                                    MkFrame(Top(th).fn, pc, index)) \o <<NewCall(fn)>>]

\* the calls left on a stack after an exception: it passes through the
\* dirty callbacks and stops at the innermost Qt slot, which PyQt leaves
Unwind(stack) ==
    LET slots == {k \in 1..Len(stack) : stack[k].fn = "configure_operator_from_gui"}
    IN  IF slots = {} THEN <<>>
        ELSE SubSeq(stack, 1, (CHOOSE k \in slots : \A j \in slots : j <= k) - 1)

\* an exception leaves the calls in progress on the thread: a with block of
\* set_updating it passes is left without the statement after the yield
Raise(th, error) ==
    /\ cfgStack' = [cfgStack EXCEPT ![th] = Unwind(@)]
    /\ cfgRaised' = cfgRaised \cup {[thread |-> th, error |-> error]}

\* a widget emits a signal connected to configure_operator_from_gui: on the
\* GUI thread the slot runs at once, from another thread the call is queued
EmitFrom(th, changed, pc, index) ==
    IF ~changed THEN cfgStack' = Goto(th, pc, index) /\ UNCHANGED cfgQueued
    ELSE IF th = "gui"
    THEN cfgStack' = GotoAndCall(th, pc, index, "configure_operator_from_gui")
             /\ UNCHANGED cfgQueued
    ELSE cfgStack' = Goto(th, pc, index) /\ cfgQueued' = cfgQueued + 1

Idle == \A th \in Threads : Depth(th) = 0

\* the controls as createDrawerControls leaves them, and the call
\* initAppletDrawerUi makes of configure_gui_from_operator
InitConfig ==
    /\ opBeta \in Betas
    /\ opSolverName \in SolverNames
    /\ beta_box = BetaBoxMinimum
    /\ solver_name_combo = 1
    /\ currently_updating = FALSE
    /\ cfgReady \in BOOLEAN
    /\ cfgStack = [th \in Threads |->
                     IF th = "gui" THEN <<NewCall("configure_gui_from_operator")>>
                     ELSE <<>>]
    /\ cfgQueued = 0
    /\ cfgRaised = {}
    /\ cfgEvents = 0

IdleConfig ==
    /\ opBeta = 50
    /\ opSolverName = DEFAULT_SOLVER_NAME
    /\ beta_box = BetaBoxMinimum
    /\ solver_name_combo = 1
    /\ currently_updating = FALSE
    /\ cfgReady = FALSE
    /\ cfgStack = [th \in Threads |-> <<>>]
    /\ cfgQueued = 0
    /\ cfgRaised = {}
    /\ cfgEvents = 0

\* line 165 and line 184: if self._currently_updating: return False
Guard(th) ==
    /\ AtEither(th, "guard")
    /\ cfgStack' = IF currently_updating THEN Return(th) ELSE Goto(th, "assert", 0)
    /\ UNCHANGED <<opBeta, opSolverName, beta_box, solver_name_combo,
                   currently_updating, cfgReady, cfgQueued, cfgRaised, cfgEvents>>
    /\ UNCHANGED notCfgVars

\* set_updating, line 159: assert not self._currently_updating
SetUpdatingAssert(th) ==
    /\ AtEither(th, "assert")
    /\ IF currently_updating
       THEN Raise(th, "AssertionError")
       ELSE cfgStack' = Goto(th, "set", 0) /\ UNCHANGED cfgRaised
    /\ UNCHANGED <<opBeta, opSolverName, beta_box, solver_name_combo,
                   currently_updating, cfgReady, cfgQueued, cfgEvents>>
    /\ UNCHANGED notCfgVars

\* set_updating, line 160 and the yield
SetUpdatingEnter(th) ==
    /\ AtEither(th, "set")
    /\ currently_updating' = TRUE
    /\ cfgStack' = Goto(th, "beta", 0)
    /\ UNCHANGED <<opBeta, opSolverName, beta_box, solver_name_combo,
                   cfgReady, cfgQueued, cfgRaised, cfgEvents>>
    /\ UNCHANGED notCfgVars

\* set_updating, line 162, and the return of the handler
SetUpdatingExit(th) ==
    /\ AtEither(th, "exit")
    /\ currently_updating' = FALSE
    /\ cfgStack' = Return(th)
    /\ UNCHANGED <<opBeta, opSolverName, beta_box, solver_name_combo,
                   cfgReady, cfgQueued, cfgRaised, cfgEvents>>
    /\ UNCHANGED notCfgVars

\* configure_gui_from_operator, line 169
GuiFromOperatorBeta(th) ==
    /\ At(th, "configure_gui_from_operator", "beta")
    /\ IF ~cfgReady
       THEN /\ Raise(th, "NotReadyError")
            /\ UNCHANGED <<beta_box, cfgQueued>>
       ELSE /\ beta_box' = QDoubleSpinBox_setValue(opBeta)
            /\ EmitFrom(th, beta_box' # beta_box, "solver", 0)
            /\ UNCHANGED cfgRaised
    /\ UNCHANGED <<opBeta, opSolverName, solver_name_combo, currently_updating,
                   cfgReady, cfgEvents>>
    /\ UNCHANGED notCfgVars

\* a variant that selects the default for an unknown name and leaves the
\* operator as it is
GuiFromOperatorSolver_KeepName(th) ==
    /\ At(th, "configure_gui_from_operator", "solver")
    /\ IF ~cfgReady
       THEN Raise(th, "NotReadyError")
       ELSE /\ cfgStack' = Goto(th, "combo",
                                IF IsAvailable(opSolverName) THEN SolverIndex(opSolverName)
                                ELSE SolverIndex(DEFAULT_SOLVER_NAME))
            /\ UNCHANGED cfgRaised
    /\ UNCHANGED <<opBeta, opSolverName, beta_box, solver_name_combo,
                   currently_updating, cfgReady, cfgQueued, cfgEvents>>
    /\ UNCHANGED notCfgVars

\* configure_gui_from_operator, lines 171 to 180: an unknown name is
\* overwritten, and the overwrite calls the dirty callback on this thread
GuiFromOperatorSolver(th) ==
    /\ At(th, "configure_gui_from_operator", "solver")
    /\ IF ~cfgReady
       THEN /\ Raise(th, "NotReadyError")
            /\ UNCHANGED opSolverName
       ELSE IF IsAvailable(opSolverName)
       THEN /\ cfgStack' = Goto(th, "combo", SolverIndex(opSolverName))
            /\ UNCHANGED <<opSolverName, cfgRaised>>
       ELSE /\ opSolverName' = DEFAULT_SOLVER_NAME
            /\ cfgStack' = GotoAndCall(th, "combo", SolverIndex(DEFAULT_SOLVER_NAME),
                                       "configure_gui_from_operator")
            /\ UNCHANGED cfgRaised
    /\ UNCHANGED <<opBeta, beta_box, solver_name_combo, currently_updating,
                   cfgReady, cfgQueued, cfgEvents>>
    /\ UNCHANGED notCfgVars

\* configure_gui_from_operator, line 181
GuiFromOperatorCombo(th) ==
    /\ At(th, "configure_gui_from_operator", "combo")
    /\ solver_name_combo' = Top(th).solver_index
    /\ EmitFrom(th, solver_name_combo' # solver_name_combo, "exit", Top(th).solver_index)
    /\ UNCHANGED <<opBeta, opSolverName, beta_box, currently_updating,
                   cfgReady, cfgRaised, cfgEvents>>
    /\ UNCHANGED notCfgVars

\* configure_operator_from_gui, line 188: the dirty callback of Beta is
\* called on this thread
OperatorFromGuiBeta(th) ==
    /\ At(th, "configure_operator_from_gui", "beta")
    /\ opBeta' = beta_box
    /\ cfgStack' = GotoAndCall(th, "solver", 0, "configure_gui_from_operator")
    /\ UNCHANGED <<opSolverName, beta_box, solver_name_combo, currently_updating,
                   cfgReady, cfgQueued, cfgRaised, cfgEvents>>
    /\ UNCHANGED notCfgVars

\* configure_operator_from_gui, line 189
OperatorFromGuiSolver(th) ==
    /\ At(th, "configure_operator_from_gui", "solver")
    /\ opSolverName' = AVAILABLE_SOLVER_NAMES[solver_name_combo]
    /\ cfgStack' = GotoAndCall(th, "exit", 0, "configure_gui_from_operator")
    /\ UNCHANGED <<opBeta, beta_box, solver_name_combo, currently_updating,
                   cfgReady, cfgQueued, cfgRaised, cfgEvents>>
    /\ UNCHANGED notCfgVars

\* a statement of a handler call in progress
HandlerStep ==
    \E th \in Threads :
        \/ Guard(th)
        \/ SetUpdatingAssert(th)
        \/ SetUpdatingEnter(th)
        \/ SetUpdatingExit(th)
        \/ GuiFromOperatorBeta(th)
        \/ GuiFromOperatorSolver(th)
        \/ GuiFromOperatorCombo(th)
        \/ OperatorFromGuiBeta(th)
        \/ OperatorFromGuiSolver(th)

\* the user edits the spin box: valueChanged calls configure_operator_from_gui
UserEditsBeta ==
    /\ Depth("gui") = 0
    /\ cfgEvents < MaxEvents
    /\ \E v \in BoxValues \ {beta_box} : beta_box' = v
    /\ cfgStack' = [cfgStack EXCEPT !["gui"] = <<NewCall("configure_operator_from_gui")>>]
    /\ cfgEvents' = cfgEvents + 1
    /\ UNCHANGED <<opBeta, opSolverName, solver_name_combo, currently_updating,
                   cfgReady, cfgQueued, cfgRaised>>
    /\ UNCHANGED notCfgVars

\* the user selects a solver: currentIndexChanged calls the same slot
UserSelectsSolver ==
    /\ Depth("gui") = 0
    /\ cfgEvents < MaxEvents
    /\ \E i \in (1..Len(AVAILABLE_SOLVER_NAMES)) \ {solver_name_combo} :
           solver_name_combo' = i
    /\ cfgStack' = [cfgStack EXCEPT !["gui"] = <<NewCall("configure_operator_from_gui")>>]
    /\ cfgEvents' = cfgEvents + 1
    /\ UNCHANGED <<opBeta, opSolverName, beta_box, currently_updating,
                   cfgReady, cfgQueued, cfgRaised>>
    /\ UNCHANGED notCfgVars

\* op.Beta.setValue from a thread with no handler in progress: the dirty
\* callback registered at line 78 is called on that thread
OperatorSetsBeta(th) ==
    /\ Depth(th) = 0
    /\ cfgEvents < MaxEvents
    /\ \E v \in Betas \ {opBeta} : opBeta' = v
    /\ cfgStack' = [cfgStack EXCEPT ![th] = <<NewCall("configure_gui_from_operator")>>]
    /\ cfgEvents' = cfgEvents + 1
    /\ UNCHANGED <<opSolverName, beta_box, solver_name_combo, currently_updating,
                   cfgReady, cfgQueued, cfgRaised>>
    /\ UNCHANGED notCfgVars

\* op.SolverName.setValue, in the same way
OperatorSetsSolverName(th) ==
    /\ Depth(th) = 0
    /\ cfgEvents < MaxEvents
    /\ \E name \in SolverNames \ {opSolverName} : opSolverName' = name
    /\ cfgStack' = [cfgStack EXCEPT ![th] = <<NewCall("configure_gui_from_operator")>>]
    /\ cfgEvents' = cfgEvents + 1
    /\ UNCHANGED <<opBeta, beta_box, solver_name_combo, currently_updating,
                   cfgReady, cfgQueued, cfgRaised>>
    /\ UNCHANGED notCfgVars

\* the event loop of the GUI thread calls a queued slot
DeliverQueued ==
    /\ Depth("gui") = 0
    /\ cfgQueued > 0
    /\ cfgQueued' = cfgQueued - 1
    /\ cfgStack' = [cfgStack EXCEPT !["gui"] = <<NewCall("configure_operator_from_gui")>>]
    /\ UNCHANGED <<opBeta, opSolverName, beta_box, solver_name_combo,
                   currently_updating, cfgReady, cfgRaised, cfgEvents>>
    /\ UNCHANGED notCfgVars

\* the operator's inputs are configured or unset
ConfigReadyChanges ==
    /\ cfgReady' = ~cfgReady
    /\ UNCHANGED <<opBeta, opSolverName, beta_box, solver_name_combo,
                   currently_updating, cfgStack, cfgQueued, cfgRaised, cfgEvents>>
    /\ UNCHANGED notCfgVars

NextConfig ==
    \/ HandlerStep
    \/ UserEditsBeta
    \/ UserSelectsSolver
    \/ \E th \in Threads : OperatorSetsBeta(th)
    \/ \E th \in Threads : OperatorSetsSolverName(th)
    \/ DeliverQueued
    \/ ConfigReadyChanges

\* the same, when every change of the operator is made on the GUI thread
NextConfigGui ==
    \/ HandlerStep
    \/ UserEditsBeta
    \/ UserSelectsSolver
    \/ OperatorSetsBeta("gui")
    \/ OperatorSetsSolverName("gui")
    \/ ConfigReadyChanges

(***************************************************************************)
(* MulticutGuiMixin.onUpdateMulticutButton: every click starts a thread     *)
(* that runs updateThread, one statement at a time.                        *)
(***************************************************************************)
\* an update thread: "started", "reading" (FreezeCache was set to False and
\* the read of Output is next), "rendering" with the number of visible
\* views joined so far, "done", or "raised" with the error
MkUpdate(pc, joined, error) == [pc |-> pc, joined |-> joined, error |-> error]

\* the update threads that have set FreezeCache to False and have not yet
\* come to the end of their joinRenderingAllTiles calls
Updating == {t \in 1..Len(updThreads) : updThreads[t].pc \in {"reading", "rendering"}}

\* the update threads that have ended, normally or with an exception
Ended == {t \in 1..Len(updThreads) : updThreads[t].pc \in {"done", "raised"}}

InitUpdate ==
    /\ freezeCache \in BOOLEAN
    /\ edgesVisible = FALSE
    /\ viewsVisible \in 0..MaxViews
    /\ updThreads = <<>>

IdleUpdate ==
    /\ freezeCache = TRUE
    /\ edgesVisible = FALSE
    /\ viewsVisible = 0
    /\ updThreads = <<>>

\* onUpdateMulticutButton, lines 211 to 214
OnUpdateMulticutButton ==
    /\ Len(updThreads) < MaxClicks
    /\ edgesVisible' = TRUE
    /\ updThreads' = Append(updThreads, MkUpdate("started", 0, ""))
    /\ UNCHANGED <<freezeCache, viewsVisible>>
    /\ UNCHANGED notUpdVars

\* updateThread, line 196: FreezeCache.setValue(False)
Unfreeze ==
    /\ \E t \in 1..Len(updThreads) :
          /\ updThreads[t].pc = "started"
          /\ updThreads' = [updThreads EXCEPT ![t].pc = "reading"]
    /\ freezeCache' = FALSE
    /\ UNCHANGED <<edgesVisible, viewsVisible>>
    /\ UNCHANGED notUpdVars

\* updateThread, lines 202 and 203: the read of Output returns or raises
ReadOutput ==
    /\ \E t \in 1..Len(updThreads) :
          /\ updThreads[t].pc = "reading"
          /\ \E after \in {MkUpdate("rendering", 0, ""),
                            MkUpdate("raised", 0, "ComputeError")} :
                updThreads' = [updThreads EXCEPT ![t] = after]
    /\ UNCHANGED <<freezeCache, edgesVisible, viewsVisible>>
    /\ UNCHANGED notUpdVars

\* updateThread, lines 206 to 208: joinRenderingAllTiles of the next visible
\* view returns or raises
JoinRendering ==
    /\ \E t \in 1..Len(updThreads) :
          /\ updThreads[t].pc = "rendering"
          /\ updThreads[t].joined < viewsVisible
          /\ \E after \in {MkUpdate("rendering", updThreads[t].joined + 1, ""),
                            MkUpdate("raised", updThreads[t].joined, "RenderError")} :
                updThreads' = [updThreads EXCEPT ![t] = after]
    /\ UNCHANGED <<freezeCache, edgesVisible, viewsVisible>>
    /\ UNCHANGED notUpdVars

\* updateThread, line 209: FreezeCache.setValue(True)
Refreeze ==
    /\ \E t \in 1..Len(updThreads) :
          /\ updThreads[t].pc = "rendering"
          /\ updThreads[t].joined = viewsVisible
          /\ updThreads' = [updThreads EXCEPT ![t].pc = "done"]
    /\ freezeCache' = TRUE
    /\ UNCHANGED <<edgesVisible, viewsVisible>>
    /\ UNCHANGED notUpdVars

NextUpdate ==
    \/ OnUpdateMulticutButton
    \/ Unfreeze
    \/ ReadOutput
    \/ JoinRendering
    \/ Refreeze

(***************************************************************************)
(* MulticutGuiMixin: the dirty callbacks it subscribes and stopAndCleanUp. *)
(* A slot keeps its callbacks in a list; whether a callback subscribed a   *)
(* second time is listed twice or once is left open.                       *)
(***************************************************************************)
\* the slots the GUI subscribes to
GuiSlots == {"Beta", "SolverName", "EdgeProbabilitiesDict"}

\* the callbacks of this GUI
GuiCallbacks == {"configure_gui_from_operator", "update_probability_edges"}

\* the callback of another object
OtherCallback == "other"

RECURSIVE Without(_, _)
\* the list without any entry of the callback
Without(callbacks, fn) ==
    IF callbacks = <<>> THEN <<>>
    ELSE IF Head(callbacks) = fn THEN Without(Tail(callbacks), fn)
    ELSE <<Head(callbacks)>> \o Without(Tail(callbacks), fn)

RECURSIVE WithoutFirst(_, _)
\* the list without the first entry of the callback
WithoutFirst(callbacks, fn) ==
    IF callbacks = <<>> THEN <<>>
    ELSE IF Head(callbacks) = fn THEN Tail(callbacks)
    ELSE <<Head(callbacks)>> \o WithoutFirst(Tail(callbacks), fn)

RECURSIVE CountOf(_, _)
\* how many entries of the list are equal to the value
CountOf(list, x) ==
    IF list = <<>> THEN 0
    ELSE (IF Head(list) = x THEN 1 ELSE 0) + CountOf(Tail(list), x)

\* slot.notifyDirty(fn): the callbacks of the slot after it
notifyDirty(callbacks, fn, once) ==
    IF once THEN Append(Without(callbacks, fn), fn) ELSE Append(callbacks, fn)

\* slot.unregisterDirty(fn): the callbacks of the slot after it
unregisterDirty(callbacks, fn) == WithoutFirst(callbacks, fn)

\* partial( op_slot.unregisterDirty, fn )
MkCleanup(slot, fn) == [slot |-> slot, fn |-> fn]

\* the subscriptions and the clean-up list, which the methods change together
MkSubs(subs, fns) == [subs |-> subs, fns |-> fns]

\* a faulty variant of configure_update_handlers that records no clean-up
configure_update_handlers_NoCleanup(st, slot, once) ==
    MkSubs([st.subs EXCEPT
               ![slot] = notifyDirty(@, "configure_gui_from_operator", once)],
           st.fns)

\* configure_update_handlers( qt_signal, op_slot ), lines 78 and 79
configure_update_handlers(st, slot, once) ==
    MkSubs([st.subs EXCEPT
               ![slot] = notifyDirty(@, "configure_gui_from_operator", once)],
           Append(st.fns, MkCleanup(slot, "configure_gui_from_operator")))

\* createDrawerControls, lines 93 and 102
createDrawerControls(st, once) ==
    configure_update_handlers(configure_update_handlers(st, "Beta", once),
                              "SolverName", once)

\* __init_probability_colortable, lines 132 and 133
init_probability_colortable(st, once) ==
    MkSubs([st.subs EXCEPT
               !["EdgeProbabilitiesDict"] =
                   notifyDirty(@, "update_probability_edges", once)],
           Append(st.fns, MkCleanup("EdgeProbabilitiesDict", "update_probability_edges")))

RECURSIVE RunCleanup(_, _)
\* for fn in self.__cleanup_fns: fn()
RunCleanup(subs, fns) ==
    IF fns = <<>> THEN subs
    ELSE RunCleanup([subs EXCEPT ![Head(fns).slot] = unregisterDirty(@, Head(fns).fn)],
                    Tail(fns))

\* stopAndCleanUp: the list itself is kept
stopAndCleanUp(st) == MkSubs(RunCleanup(st.subs, st.fns), st.fns)

NoInvocation == [slot |-> "", callbacks |-> <<>>]

\* line 60, then the __init__ of the base class, which calls
\* createDrawerControls or leaves it to the applet that uses the mixin
AfterInit(d, once) ==
    LET start == MkSubs([slot \in GuiSlots |-> <<>>], <<>>)
        base  == IF d = 1 THEN createDrawerControls(start, once) ELSE start
    IN  init_probability_colortable(base, once)

InitSubs ==
    /\ subscribeOnce \in BOOLEAN
    /\ drawers \in {0, 1}
    /\ subscribers = AfterInit(drawers, subscribeOnce).subs
    /\ cleanup_fns = AfterInit(drawers, subscribeOnce).fns
    /\ stopped = FALSE
    /\ invoked = NoInvocation

IdleSubs ==
    /\ subscribeOnce = FALSE
    /\ drawers = 0
    /\ subscribers = [slot \in GuiSlots |-> <<>>]
    /\ cleanup_fns = <<>>
    /\ stopped = FALSE
    /\ invoked = NoInvocation

\* createDrawerControls is called, by initAppletDrawerUi or by another applet
CreateDrawerControls ==
    /\ ~stopped
    /\ drawers < MaxDrawers
    /\ drawers' = drawers + 1
    /\ LET after == createDrawerControls(MkSubs(subscribers, cleanup_fns), subscribeOnce)
       IN  subscribers' = after.subs /\ cleanup_fns' = after.fns
    /\ invoked' = NoInvocation
    /\ UNCHANGED <<subscribeOnce, stopped>>
    /\ UNCHANGED notSubVars

\* another object subscribes a callback of its own to one of the slots
OtherSubscribes ==
    /\ \E slot \in GuiSlots :
          /\ CountOf(subscribers[slot], OtherCallback) < MaxOthers
          /\ subscribers' = [subscribers EXCEPT
                                 ![slot] = notifyDirty(@, OtherCallback, subscribeOnce)]
    /\ invoked' = NoInvocation
    /\ UNCHANGED <<subscribeOnce, cleanup_fns, drawers, stopped>>
    /\ UNCHANGED notSubVars

\* stopAndCleanUp, lines 49 to 54
StopAndCleanUp ==
    /\ ~stopped
    /\ subscribers' = stopAndCleanUp(MkSubs(subscribers, cleanup_fns)).subs
    /\ stopped' = TRUE
    /\ invoked' = NoInvocation
    /\ UNCHANGED <<subscribeOnce, cleanup_fns, drawers>>
    /\ UNCHANGED notSubVars

\* a slot becomes dirty: every callback subscribed to it is invoked
SlotDirty ==
    /\ \E slot \in GuiSlots :
          invoked' = [slot |-> slot, callbacks |-> subscribers[slot]]
    /\ UNCHANGED <<subscribers, subscribeOnce, cleanup_fns, drawers, stopped>>
    /\ UNCHANGED notSubVars

NextSubs ==
    \/ CreateDrawerControls
    \/ OtherSubscribes
    \/ StopAndCleanUp
    \/ SlotDirty

(***************************************************************************)
(* The specifications.                                                     *)
(***************************************************************************)
\* the slicing conversion is not in use
IdleSlicing ==
    /\ slicing = <<>>
    /\ strSlicing = <<>>
    /\ parsed = NoParse
    /\ pcSlicing = "idle"

InitSpecSlicing ==
    InitSlicing /\ InitCarving /\ IdleSerializer /\ IdleExec /\ IdleEdges /\ IdlePool
        /\ IdleConfig /\ IdleUpdate /\ IdleSubs

SpecSlicing == InitSpecSlicing /\ [][NextSlicing]_vars

InitSpecCarving ==
    IdleSlicing /\ InitCarving /\ IdleSerializer /\ IdleExec /\ IdleEdges /\ IdlePool
        /\ IdleConfig /\ IdleUpdate /\ IdleSubs

SpecCarving == InitSpecCarving /\ [][NextCarving]_vars

InitSpecSerializer ==
    IdleSlicing /\ InitCarving /\ InitSerializer /\ IdleExec /\ IdleEdges /\ IdlePool
        /\ IdleConfig /\ IdleUpdate /\ IdleSubs

SpecSerializer == InitSpecSerializer /\ [][NextSerializer]_vars

InitSpecExec ==
    IdleSlicing /\ InitCarving /\ IdleSerializer /\ InitExec /\ IdleEdges /\ IdlePool
        /\ IdleConfig /\ IdleUpdate /\ IdleSubs

SpecExec == InitSpecExec /\ [][NextExec]_vars

InitSpecEdges ==
    IdleSlicing /\ InitCarving /\ IdleSerializer /\ IdleExec /\ InitEdges /\ IdlePool
        /\ IdleConfig /\ IdleUpdate /\ IdleSubs

SpecEdges == InitSpecEdges /\ [][NextEdges]_vars

InitSpecPool ==
    IdleSlicing /\ InitCarving /\ IdleSerializer /\ IdleExec /\ IdleEdges /\ InitPool
        /\ IdleConfig /\ IdleUpdate /\ IdleSubs

\* a worker of the pool that has something to do does it
SpecPool == InitSpecPool /\ [][NextPool]_vars /\ WF_vars(PoolWork)

\* the controls of the multicut drawer, the operator and the two handlers
InitSpecConfig ==
    IdleSlicing /\ InitCarving /\ IdleSerializer /\ IdleExec /\ IdleEdges /\ IdlePool
        /\ InitConfig /\ IdleUpdate /\ IdleSubs

SpecConfig == InitSpecConfig /\ [][NextConfig]_vars

\* the same controls, with the GUI thread alone
InitSpecConfigGui ==
    IdleSlicing /\ InitCarving /\ IdleSerializer /\ IdleExec /\ IdleEdges /\ IdlePool
        /\ InitConfig /\ IdleUpdate /\ IdleSubs

SpecConfigGui == InitSpecConfigGui /\ [][NextConfigGui]_vars

\* the Update Multicut button and its threads
InitSpecUpdate ==
    IdleSlicing /\ InitCarving /\ IdleSerializer /\ IdleExec /\ IdleEdges /\ IdlePool
        /\ IdleConfig /\ InitUpdate /\ IdleSubs

SpecUpdate == InitSpecUpdate /\ [][NextUpdate]_vars

\* the dirty subscriptions of the GUI and their clean-up
InitSpecSubs ==
    IdleSlicing /\ InitCarving /\ IdleSerializer /\ IdleExec /\ IdleEdges /\ IdlePool
        /\ IdleConfig /\ IdleUpdate /\ InitSubs

SpecSubs == InitSpecSubs /\ [][NextSubs]_vars

(***************************************************************************)
(* C1                                                                      *)
(***************************************************************************)
\* C1: for every slicing with non-negative integer bounds, of any number of
\* axes, stringToSlicing(slicingToString(slicing)) returns a slicing equal to
\* the original.
C1_RoundTrip ==
    pcSlicing = "parsed" => parsed.error = "" /\ parsed.slicing = slicing

\* C1, where it holds: every slicing of at least one axis comes back unchanged.
C1_RoundTripNonEmpty ==
    (pcSlicing = "parsed" /\ Len(slicing) >= 1)
        => parsed.error = "" /\ parsed.slicing = slicing

\* C1, where it fails: the slicing of no axes is formatted as "]", which
\* stringToSlicing cannot parse.
C1_EmptyFails ==
    (pcSlicing = "parsed" /\ slicing = <<>>)
        => strSlicing = <<"]">> /\ parsed.error = "ValueError"

(***************************************************************************)
(* C2                                                                      *)
(***************************************************************************)
\* C2: after setupOutputs of OpSplitBodyCarving has run one or more times, a
\* dirty event on Segmentation over a region calls every callback subscribed
\* to MaskedSegmentation exactly once, with a region that contains it.
C2_OneCallbackPerSubscriber ==
    lastEvent.slot = "Segmentation" =>
        \A s \in maskedSubs :
            /\ Len(received[s]) = 1
            /\ Contains(received[s][1], lastEvent.roi)

\* C2, what the code does: a callback is called once per run of setupOutputs.
C2_OneCallbackPerSetup ==
    lastEvent.slot = "Segmentation" =>
        \A s \in maskedSubs :
            /\ Len(received[s]) = segHandlers
            /\ \A k \in 1..Len(received[s]) : received[s][k] = lastEvent.roi

(***************************************************************************)
(* C3                                                                      *)
(***************************************************************************)
\* C3: a dirty event on RavelerLabels (the Input of OpHighlightLabel) over a
\* bounded region marks MaskedSegmentation, and the Output of
\* OpHighlightLabel, dirty once, over exactly that region.
C3_IdentityRegion ==
    lastEvent.slot = "RavelerLabels" =>
        /\ hlReceived = <<lastEvent.roi>>
        /\ \A s \in maskedSubs : received[s] = <<lastEvent.roi>>

\* a region smaller than the volume went through, with subscribers listening
C3_Witness ==
    /\ lastEvent.slot = "RavelerLabels"
    /\ lastEvent.roi # EntireDomain(ravelerMeta.shape)
    /\ lastEvent.roi.start # <<0, 0>>
    /\ maskedSubs # {}
    /\ \A s \in maskedSubs : received[s] = <<lastEvent.roi>>

(***************************************************************************)
(* C4                                                                      *)
(***************************************************************************)
\* C4: a dirty event on CurrentRavelerLabel (the HighlightLabel of
\* OpHighlightLabel), whatever its region, marks MaskedSegmentation and the
\* Output of OpHighlightLabel dirty over their entire domain.
C4_ScalarDirtiesAll ==
    lastEvent.slot = "CurrentRavelerLabel" =>
        /\ hlReceived = <<EntireDomain(hlOutMeta.shape)>>
        /\ \A s \in maskedSubs : received[s] = <<EntireDomain(maskedMeta.shape)>>

\* the event carried a region that is not the entire domain of either output
C4_Witness ==
    /\ lastEvent.slot = "CurrentRavelerLabel"
    /\ lastEvent.roi # EntireDomain(hlOutMeta.shape)
    /\ lastEvent.roi # EntireDomain(maskedMeta.shape)
    /\ maskedSubs # {}
    /\ \A s \in maskedSubs : received[s] = <<EntireDomain(maskedMeta.shape)>>

(***************************************************************************)
(* C5                                                                      *)
(***************************************************************************)
\* C5: setupOutputs run again with unchanged inputs leaves the operator as
\* it was: the same output metadata and the same dirty subscriptions.
C5_SetupOutputsIdempotent ==
    [][carvOp' \in {"splitSetupOutputs", "highlightSetupOutputs"} =>
          /\ segMeta' = segMeta
          /\ maskedMeta' = maskedMeta
          /\ hlOutMeta' = hlOutMeta
          /\ segHandlers' = segHandlers
          /\ maskedSubs' = maskedSubs]_vars

\* C5, what the code does: the metadata is the same, the subscriptions of
\* OpHighlightLabel too, and Segmentation has one more subscriber.
C5_MetadataIdempotent ==
    [][carvOp' \in {"splitSetupOutputs", "highlightSetupOutputs"} =>
          /\ segMeta' = segMeta
          /\ maskedMeta' = maskedMeta
          /\ hlOutMeta' = hlOutMeta
          /\ maskedSubs' = maskedSubs
          /\ (carvOp' = "highlightSetupOutputs" => segHandlers' = segHandlers)
          /\ (carvOp' = "splitSetupOutputs" => segHandlers' = segHandlers + 1)]_vars

(***************************************************************************)
(* C6                                                                      *)
(***************************************************************************)
\* C6: when _serializeToHdf5 has returned every section flag is False and
\* isDirty() is False, and isDirty() stays False as long as no dirty
\* callback fires.
C6_CleanAfterSave ==
    /\ [](serOp = "save" =>
            (\A s \in Sections : ~dirtyFlags[s]) /\ ~isDirty(dirtyFlags))
    /\ [][(~isDirty(dirtyFlags) /\ fired' = {}) => ~isDirty(dirtyFlags')]_vars

\* a save that began with every flag set
C6_Witness ==
    /\ serOp = "save"
    /\ \A s \in Sections : flagsBefore[s]
    /\ ~isDirty(dirtyFlags)

(***************************************************************************)
(* C7                                                                      *)
(***************************************************************************)
\* C7: a flag that _serializeToHdf5 changes from True to False belongs to a
\* section that call wrote to the project file.
C7_ClearedOnlyAfterWritten ==
    serOp = "save" =>
        \A s \in Sections : (flagsBefore[s] /\ ~dirtyFlags[s]) => s \in acted

\* C7, what the code does: it holds of Labels and Classifier.
C7_LabelsAndClassifier ==
    serOp = "save" =>
        \A s \in {"Labels", "Classifier"} :
            (flagsBefore[s] /\ ~dirtyFlags[s]) => s \in acted

(***************************************************************************)
(* C8                                                                      *)
(***************************************************************************)
\* the section of the handler subscribed to a slot
SectionOfSlot(n) ==
    IF n.slot = "LabelImages" THEN "Labels"
    ELSE IF n.slot = "PredictionProbabilities" THEN "Predictions"
    ELSE "Classifier"

ClearingOps == {"save", "load"}

C9_CleanAfterLoad ==
    serOp = "load" => (\A s \in Sections : ~dirtyFlags[s]) /\ ~isDirty(dirtyFlags)

\* C9, what the code does: the flags of Labels and Classifier are False, that
\* of Predictions is set whenever a prediction slot was marked dirty.
C9_LabelsAndClassifierClean ==
    serOp = "load" =>
        /\ ~dirtyFlags["Labels"] /\ ~dirtyFlags["Classifier"]
        /\ Len(labelInputs) = Len(projectFile.labelSets)
        /\ ("Predictions" \in fired => dirtyFlags["Predictions"])

(***************************************************************************)
(* C10                                                                     *)
(***************************************************************************)
\* C10: after a load that forced the stored classifier into the cache, the
\* Classifier slot is ready and holds that classifier; a read of it returns
\* the forced classifier without training; and the forced classifier is kept
\* until the input of the cache becomes dirty.
C10_ForcedClassifier ==
    /\ []((serOp = "load" /\ projectFile.classifier # NoClassifier) =>
            /\ ClassifierReady(labelInputs, cache)
            /\ cache.value = projectFile.classifier
            /\ cache.forced /\ ~cache.dirty)
    /\ [][/\ (cache.forced /\ serOp' = "readClassifier") =>
                cache'.value = cache.value /\ ~retrained'
          /\ (cache.forced /\ serOp' # "load"
                  /\ MkSlot("classifier_cache.Input", 0) \notin notified') =>
                cache' = cache /\ ~retrained']_vars

\* the forced classifier was read, with labels to train on, and not trained
C10_Witness ==
    /\ serOp = "readClassifier"
    /\ cache.forced
    /\ cache.value = "rfB"
    /\ \E i \in 1..Len(labelInputs) : labelInputs[i] # <<>>
    /\ ~retrained

(***************************************************************************)
(* C11                                                                     *)
(***************************************************************************)
\* the multi-slots the serializer subscribes to with notifyInserted
WatchedMultiSlots == {"LabelImages", "PredictionProbabilities"}

\* C11: in every operation, and so in a load, a dirty event on a sub-slot of
\* LabelImages or PredictionProbabilities is delivered when that index
\* exists and handleNewImage has subscribed to it, so the handler of its
\* section runs; and the subscriptions the notifications of the operation
\* lead to are those the serializer holds after it.
C11_InsertedBeforeDirty ==
    [][/\ \A k \in 1..Len(events') :
            (events'[k].kind = "dirty" /\ events'[k].slot.slot \in WatchedMultiSlots) =>
                /\ events'[k].slot.index
                       \in 1..SizeAt(events'[k].slot.slot, Len(labelInputs), events', k)
                /\ MkSub(events'[k].slot, SectionOfSlot(events'[k].slot))
                       \in SubsAt(dirtySubs, events', k)
                /\ SectionOfSlot(events'[k].slot) \in fired'
       /\ SubsAt(dirtySubs, events', Len(events') + 1) = dirtySubs']_vars

\* a load that inserted the second image and then assigned a block to it
C11_Witness ==
    /\ serOp = "load"
    /\ \E j, k \in 1..Len(events) :
          /\ j < k
          /\ events[j] = MkEvent("inserted", MkSlot("LabelImages", 2))
          /\ events[k] = MkEvent("dirty", MkSlot("LabelImages", 2))
    /\ MkSub(MkSlot("LabelImages", 2), "Labels") \in dirtySubs
    /\ "Labels" \in fired

(***************************************************************************)
(* C12                                                                     *)
(***************************************************************************)
\* how often an event occurs in a sequence of events
Occurrences(evs, e) == Cardinality({k \in 1..Len(evs) : evs[k] = e})

\* C12: unload() leaves LabelInputs without sub-slots whatever number a load
\* or the user gave it, every index it had gets one removal notification
\* on each of the multi-slots, no callback of the serializer is left on a
\* sub-slot, and the input of the classifier cache is marked dirty.
C12_ResizeToZero ==
    [][serOp' = "unload" =>
          /\ labelInputs' = <<>>
          /\ \A i \in 1..Len(labelInputs) : \A m \in 1..Len(MultiSlots) :
                Occurrences(events', MkEvent("removed", MkSlot(MultiSlots[m], i))) = 1
          /\ \A k \in 1..Len(events') :
                events'[k].kind = "removed" => events'[k].slot.index \in 1..Len(labelInputs)
          /\ dirtySubs' = {ClassifierSub}
          /\ Occurrences(events', MkEvent("dirty", MkSlot("classifier_cache.Input", 0))) = 1
          /\ cache'.dirty]_vars

\* the two images of the project file were unloaded
C12_Witness ==
    /\ serOp = "unload"
    /\ Len(projectFile.labelSets) = 2
    /\ labelInputs = <<>>
    /\ Occurrences(events, MkEvent("removed", MkSlot("LabelInputs", 2))) = 1
    /\ Occurrences(events, MkEvent("removed", MkSlot("LabelInputs", 1))) = 1

(***************************************************************************)
(* C13                                                                     *)
(***************************************************************************)
OverriddenInputs == {"RavelerLabels", "CurrentRavelerLabel"}

C14_SubmitsAndRoutes ==
    /\ [](lastMutation.thread \in {"", "main"})
    /\ [][edgeOp' = "dirty" =>
              /\ Len(requests') = Len(requests) + 1
              /\ requests'[Len(requests')].pc = "submitted"
              /\ SubSeq(requests', 1, Len(requests)) = requests
              /\ pen_table' = pen_table
              /\ routedQueue' = routedQueue]_vars
    /\ [][(\E l \in 1..Len(pen_table) : pen_table'[l] # pen_table[l]) =>
              (edgeOp' = "applyRouted" /\ lastMutation'.thread = "main")]_vars

\* a dirty event arrived while an earlier Request was computed and not yet
\* applied, and a pen was set
C14_Witness ==
    /\ lastMutation.thread = "main"
    /\ \E r \in 1..Len(requests) : requests[r].pc = "done" /\ requests[r].new_pens = 50
    /\ \E r \in 1..Len(requests) : requests[r].pc = "submitted"
    /\ \E l \in 1..Len(pen_table) : pen_table[l] = 50

(***************************************************************************)
(* C15                                                                     *)
(***************************************************************************)
ReadErrors == {"NotReadyError", "ComputeError"}

\* C15: setupLayers makes the superpixel edge layer only when Superpixels
\* and EdgeProbabilitiesDict are ready, and no read of a slot value by the
\* GUI ends in a NotReadyError or ComputeError that nothing catches.
C15_ReadsGuardedOrCaught ==
    /\ (edgeOp = "setupLayersEnd" /\ superpixel_edge_layer # 0) => (spReady /\ epReady)
    /\ \A r \in 1..Len(requests) : requests[r].error \notin ReadErrors

\* C15, what the code does: the layers are made from ready slots only, and
\* a Request whose read of EdgeProbabilitiesDict.value fails ends with the
\* error, its pens never applied.
C15_LayersFromReadySlots ==
    /\ (edgeOp = "setupLayersEnd" /\ superpixel_edge_layer # 0) => (spReady /\ epReady)
    /\ \A r \in 1..Len(requests) :
          requests[r].error \in ReadErrors =>
              requests[r].pc = "raised" /\ requests[r].new_pens = DefaultPen

(***************************************************************************)
(* C16                                                                     *)
(***************************************************************************)
\* C16: whenever a Request is not done, a moment comes when every Request
\* made so far is done, so every request for MaskedSegmentation is
\* eventually done, whatever the number of workers and of requests; and as
\* long as a Request is not done the pool has a step to take, the Requests
\* that wait inside execute holding no worker.
C16_NestedWaitsServed ==
    /\ (\E r \in 1..Len(poolRequests) : poolRequests[r].pc # "done")
          ~> (\A r \in 1..Len(poolRequests) : poolRequests[r].pc = "done")
    /\ []((\E r \in 1..Len(poolRequests) : poolRequests[r].pc # "done")
             => ENABLED PoolWork)

\* one worker, two outer requests waiting inside execute at once, and a
\* nested Request done
C16_Witness ==
    /\ poolWorkers = 1
    /\ Cardinality({r \in OuterRequests : poolRequests[r].pc = "waiting"}) = 2
    /\ \E r \in 1..Len(poolRequests) :
          poolRequests[r].parent # 0 /\ poolRequests[r].pc = "done"

(***************************************************************************)
(* C17                                                                     *)
(***************************************************************************)
\* the handler calls that are inside the with block of set_updating
InBody ==
    UNION {{<<th, k>> : k \in {j \in 1..Depth(th) :
                cfgStack[th][j].pc \in {"beta", "solver", "combo", "exit"}}} :
           th \in Threads}

\* C17: the update handlers are mutually exclusive, also when a dirty
\* callback runs on a thread other than the GUI thread: at most one call of
\* configure_gui_from_operator or configure_operator_from_gui is inside the
\* with block of set_updating, and the assertion of set_updating never fails
C17_MutuallyExclusive ==
    /\ Cardinality(InBody) <= 1
    /\ \A e \in cfgRaised : e.error # "AssertionError"

(***************************************************************************)
(* C18                                                                     *)
(***************************************************************************)
\* C18: whenever no call of configure_gui_from_operator or of
\* configure_operator_from_gui is in progress, _currently_updating is
\* False, also after a call whose body raised an exception
C18_FlagClearWhenIdle == Idle => ~currently_updating

\* the flag is set with no call in progress only after a call has raised
C18_SetOnlyAfterRaise == (Idle /\ currently_updating) => cfgRaised # {}

(***************************************************************************)
(* C19                                                                     *)
(***************************************************************************)
\* no handler is running and none is queued
Settled == Idle /\ cfgQueued = 0

\* C19: once no handler is running, the spin box shows op.Beta and the combo
\* box shows op.SolverName, also when op.Beta is outside the range of the box
C19_WidgetsAgree ==
    Settled => /\ beta_box = opBeta
               /\ AVAILABLE_SOLVER_NAMES[solver_name_combo] = opSolverName

(***************************************************************************)
(* C20                                                                     *)
(***************************************************************************)
\* the thread takes a step of its innermost handler call
Steps(th) == Depth(th) > 0 /\ cfgStack'[th] # cfgStack[th]

\* the call in progress on the thread is the dirty callback of the overwrite
\* of line 180, about to test the guard
OverwriteCallback(th) ==
    /\ Depth(th) >= 2
    /\ At(th, "configure_gui_from_operator", "guard")
    /\ cfgStack[th][Depth(th) - 1].fn = "configure_gui_from_operator"
    /\ cfgStack[th][Depth(th) - 1].pc = "combo"

C24_LayerPresentAtApply ==
    \A r \in 1..Len(requests) : requests[r].error # "AttributeError"

(***************************************************************************)
(* C25                                                                     *)
(***************************************************************************)
\* every submitted request has run to its end without an error
AllRequestsDone ==
    /\ routedQueue = <<>>
    /\ \A r \in 1..Len(requests) : requests[r].pc = "done"

\* C25: once every submitted request has completed, the pen of the edge in
\* the current layer is the pen of the edge's latest probability: a request
\* of an earlier dirty event does not overwrite the pens of a later one
C25_PensAreLatest ==
    (AllRequestsDone /\ mainPc = "idle" /\ superpixel_edge_layer # 0)
        => pen_table[superpixel_edge_layer] = PenIndex(edgeProbs)

(***************************************************************************)
(* C26                                                                     *)
(***************************************************************************)
\* C26: execute for MaskedSegmentation over a region returns a result over
\* exactly the positions of the region, holding the Segmentation value where
\* RavelerLabels equals CurrentRavelerLabel and 0 elsewhere; RavelerLabels
\* and Segmentation are read over that region and nowhere else, and the
\* inputs stay as they were
C26_MaskedSegmentation ==
    /\ []((exCall.method = "execute" /\ exCall.slot = "MaskedSegmentation") =>
            /\ DOMAIN exOutcome.result = Positions(exCall.roi)
            /\ \A p \in Positions(exCall.roi) :
                   exOutcome.result[p] =
                       IF exRavelerLabels[p] = exCurrentLabel
                       THEN exSegmentation[p] ELSE 0
            /\ \A slot \in {"RavelerLabels", "Segmentation"} :
                   /\ \E i \in 1..Len(exOutcome.reads) : exOutcome.reads[i].slot = slot
                   /\ \A i \in 1..Len(exOutcome.reads) :
                          exOutcome.reads[i].slot = slot =>
                              exOutcome.reads[i].arg =
                                  Bounded(exCall.roi.start, exCall.roi.stop)
            /\ exOutcome.calls = <<>>)
    /\ [][exCall'.method = "execute" =>
              UNCHANGED <<exRavelerLabels, exSegmentation, exCurrentLabel>>]_vars

\* MaskedSegmentation was requested over a region where the mask keeps a
\* segmentation value at one position and clears one at another
C26_Witness ==
    /\ exCall.method = "execute"
    /\ exCall.slot = "MaskedSegmentation"
    /\ \E p, q \in Positions(exCall.roi) :
          /\ exOutcome.result[p] # 0
          /\ exSegmentation[q] # 0
          /\ exOutcome.result[q] = 0

(***************************************************************************)
(* C27                                                                     *)
(***************************************************************************)
\* C27: OpHighlightLabel.execute for Output returns values in {0, 1} over the
\* region: 0 everywhere when HighlightLabel is 0, and then Input is not read;
\* otherwise 1 exactly where Input equals HighlightLabel.  For a slot other
\* than Output the assertion fails.
C27_HighlightLabel ==
    exCall.method = "OpHighlightLabel.execute" =>
        IF exCall.slot # "Output" THEN exOutcome = AssertionFailed
        ELSE /\ DOMAIN exOutcome.result = Positions(exCall.roi)
             /\ \A p \in Positions(exCall.roi) :
                    /\ exOutcome.result[p] \in {0, 1}
                    /\ exOutcome.result[p] = 1 <=>
                           (exCurrentLabel # 0 /\ exRavelerLabels[p] = exCurrentLabel)
             /\ exCurrentLabel = 0 =>
                    \A i \in 1..Len(exOutcome.reads) : exOutcome.reads[i].slot # "Input"
             /\ exOutcome.calls = <<>>

\* Output was requested with HighlightLabel 0 over a region where Input is 0
C27_WitnessZero ==
    /\ exCall.method = "OpHighlightLabel.execute"
    /\ exCall.slot = "Output"
    /\ exCurrentLabel = 0
    /\ \E p \in Positions(exCall.roi) : exRavelerLabels[p] = 0 /\ exOutcome.result[p] = 0

(***************************************************************************)
(* C21                                                                     *)
(***************************************************************************)
\* C21: once every update thread that was started has ended, normally or
\* because the read of Output or a rendering wait raised, FreezeCache is
\* True
C21_FrozenAfterUpdates ==
    (updThreads # <<>> /\ Ended = 1..Len(updThreads)) => freezeCache = TRUE

\* when no update thread raised, FreezeCache is True once all have ended
C21_FrozenWhenNoneRaised ==
    (updThreads # <<>> /\ \A t \in 1..Len(updThreads) : updThreads[t].pc = "done")
        => freezeCache = TRUE

(***************************************************************************)
(* C22                                                                     *)
(***************************************************************************)
\* C22: FreezeCache is False at every moment between an update thread's
\* setValue(False) and the end of its joinRenderingAllTiles calls, also when
\* the button is clicked again while an earlier update thread is running
C22_UnfrozenDuringUpdate == Updating # {} => freezeCache = FALSE

\* with one update thread the cache stays unfrozen for the whole update
C22_UnfrozenWithOneThread ==
    (Len(updThreads) = 1 /\ Updating # {}) => freezeCache = FALSE

(***************************************************************************)
(* C23                                                                     *)
(***************************************************************************)
\* the notifyDirty calls the GUI has made for a slot and a callback
Subscribed(slot, fn) ==
    IF fn = "configure_gui_from_operator" /\ slot \in {"Beta", "SolverName"}
    THEN drawers
    ELSE IF fn = "update_probability_edges" /\ slot = "EdgeProbabilitiesDict"
    THEN 1 ELSE 0

\* C23: for every notifyDirty the GUI made, on Beta, SolverName and
\* EdgeProbabilitiesDict, the clean-up list holds exactly one matching
\* unregisterDirty; after stopAndCleanUp no callback of the GUI is subscribed
\* to any of these slots and a dirty event on them invokes none, whatever
\* subscriptions were made before, while the callbacks of others stay
C23_AllUnsubscribed ==
    /\ [](\A slot \in GuiSlots : \A fn \in GuiCallbacks :
             CountOf(cleanup_fns, MkCleanup(slot, fn)) = Subscribed(slot, fn))
    /\ [](stopped => \A slot \in GuiSlots : \A fn \in GuiCallbacks :
                         CountOf(subscribers[slot], fn) = 0)
    /\ [][(stopped /\ invoked' # invoked) =>
              \A fn \in GuiCallbacks : CountOf(invoked'.callbacks, fn) = 0]_vars
    /\ [][stopped' /\ ~stopped =>
              \A slot \in GuiSlots :
                  CountOf(subscribers'[slot], OtherCallback)
                      = CountOf(subscribers[slot], OtherCallback)]_vars

\* createDrawerControls ran twice, stopAndCleanUp ran, and a dirty event on
\* Beta invoked the callback of another object only
C23_Witness ==
    /\ stopped
    /\ drawers = 2
    /\ invoked = [slot |-> "Beta", callbacks |-> <<OtherCallback>>]

====
